---- MODULE Spec2Model ----
(***************************************************************************)
(* Agent execution loop (packages/agents), its streaming variant, the      *)
(* provider adapter in front of the Anthropic provider, and the ACP        *)
(* protocol server (packages/acp).                                         *)
(*                                                                         *)
(* One behaviour of the model constructs one Agent (its configuration is   *)
(* chosen in Init), wraps it in one AcpServer, and then runs at most one   *)
(* Agent.execute: called directly, through Agent.stream, or through the    *)
(* server's completion/complete method.  A behaviour that uses the server  *)
(* sends it requests one at a time; a well-formed completion/complete      *)
(* request is the last of them.                                            *)
(*                                                                         *)
(* Further specifications over the same variables follow one component     *)
(* each: SpecRegistry (ToolRegistry), SpecNormalizer (the Anthropic stream *)
(* normalizer), SpecClient (AcpClient and its transport on an AcpAdapter), *)
(* SpecMetadata (the metadata bag of two executions), SpecWire (texts and  *)
(* the system prompt on their way to the Anthropic backend and back),      *)
(* SpecAdapter (two AcpAdapter.complete calls), SpecLimiter (RateLimiter), *)
(* SpecOverlap (two overlapping execute / stream calls on one Agent) and   *)
(* SpecFrame (what execute does to the arguments its caller keeps).        *)
(***************************************************************************)
EXTENDS Integers, Sequences, FiniteSets, TLC

\* ------------------------------------------------------------------ bounds
\* largest configured maxIterations explored
MaxIter == 2
\* largest number of tool-use blocks in one provider response
MaxCalls == 2
\* largest number of chunks one provider stream delivers
MaxChunks == 5
\* largest number of requests one AcpClient sends
MaxSent == 2
\* largest number of messages in one completion/complete request
MaxMessages == 2
\* largest maxConcurrent of a RateLimiter
MaxLimit == 2
\* largest number of message, toolCall and toolResult events two overlapping
\* executions emit together
MaxEmitted == 3

\* ------------------------------------------------------- program constants
\* agent.ts:56   this.config.maxIterations ?? 20
DefaultMaxIterations == 20

\* acp-types.ts ERROR_CODES
INVALID_REQUEST == -32600
METHOD_NOT_FOUND == -32601
INVALID_PARAMS == -32602
INTERNAL_ERROR == -32603

\* JavaScript undefined / an absent optional value
Undefined == -1
None == [kind |-> "none"]

VARIABLES
    config,         \* AgentConfig the Agent was constructed with
    mode,           \* how execute was entered: "none", "execute", "stream", "acp"
    aborted,        \* options.signal.aborted (no signal: never aborted)
    initialMessages,\* options.initialMessages, the caller's array
    pc,             \* position of Agent.execute
    iteration,      \* let iteration
    messages,       \* messageManager.messages
    calls,          \* the closures of toolCalls.map(...) of the current iteration
    emitted,        \* every event the agent emitted to a listener, in order
    providerCalls,  \* number of generateResponse calls made
    toolExecs,      \* number of ToolRegistry.execute calls made
    result,         \* value execute resolved with
    listening,      \* the four stream handlers are registered on the agent
    streamPc,       \* position of the Agent.stream generator
    events,         \* const events: AgentStreamEvent[] of stream()
    lastYieldedIndex,
    yielded,        \* events the generator yielded to its consumer, in order
    initialized,    \* AcpServer.initialized
    request,        \* the request handleRequest was last called with
    response,       \* what that handleRequest call settled with
    initSuccesses,  \* number of initialize requests answered with a result
    handlerCalls,   \* [name, input, via] of the tool handler invocations made
                    \* for the current execute or handleRequest call
    tools,          \* ToolRegistry.tools, the Map as a set of [name, tool]
    regOp,          \* the last register / registerMany / unregister call;
                    \* tick flips with every such call
    exec,           \* the last ToolRegistry.execute call and its promises
    nzPc,           \* AnthropicProvider.stream: "running", "failed", "returned"
    partialBlockType,
    partialToolUseBuffer,
    partialToolUseBlock,
    chunks,         \* the chunks messageStream has delivered, in order
    partials,       \* the PartialReturn values the generator yielded, in order
    nextId,         \* AcpClient.nextId
    pendingRequests,\* AcpClient.pendingRequests, the Map as a set of [id, req]
    clientInitialized, \* AcpClient.initialized
    sent,           \* the promises sendRequest created, in order, each with
                    \* its timer and what the transport did with its request
    lastCall,       \* what ran last on the client: "close", a handleResponse
                    \* call that found no entry ("dropped"), or "other"
    rawResponse,    \* what the application's own server.handleRequest call
                    \* with an initialize request settled with
    callerMetadata, \* the options.metadata object the application holds
    maps,           \* the Map objects on the heap: what each of them holds
    executions,     \* the calls of Agent.execute: executionMetadata, result
    wirePc,         \* completion/complete through the Anthropic provider:
                    \* "idle", "generating", "done"
    wireConfig,     \* the AgentConfig of the agent behind the server
    wireRequest,    \* params.messages of the completion/complete request
    wireMessages,   \* messageManager.messages of the execution it starts
    backendRequest, \* what client.messages.create was called with
    backendResponse,\* what that call settled with
    wireResponse,   \* what handleRequest settled with
    adapterCalls,   \* the calls of AcpAdapter.complete: position, the request
                    \* awaited, what the call settled with
    limiterConfig,  \* RateLimiter: maxConcurrent and minDelay
    running,        \* RateLimiter.running
    queue,          \* RateLimiter.queue: the resolve functions, by caller
    callers,        \* where each caller of acquire / release stands
    listeners,      \* the agent's listeners for each event type, by owner
    runs,           \* overlapping execute / stream calls on one Agent
    arrays,         \* the message arrays on the heap: what each of them holds
    objects,        \* the metadata objects on the heap: their own entries
    frame           \* one execute call seen from its caller: the arguments
                    \* as they were, the references execute holds, the result

agentVars == <<pc, iteration, messages, calls, emitted, providerCalls,
               toolExecs, result, listening, events>>
toolVars == <<handlerCalls>>
streamVars == <<streamPc, lastYieldedIndex, yielded>>
serverVars == <<initialized, request, response, initSuccesses>>
mainVars == <<config, mode, aborted, initialMessages, agentVars, streamVars,
              serverVars, toolVars>>
registryVars == <<tools, regOp, exec>>
normalizerVars == <<nzPc, partialBlockType, partialToolUseBuffer,
                    partialToolUseBlock, chunks, partials>>
clientVars == <<nextId, pendingRequests, clientInitialized, sent, lastCall,
                rawResponse>>
metadataVars == <<callerMetadata, maps, executions>>
wireVars == <<wirePc, wireConfig, wireRequest, wireMessages, backendRequest,
              backendResponse, wireResponse>>
adapterVars == <<adapterCalls>>
limiterVars == <<limiterConfig, running, queue, callers>>
overlapVars == <<listeners, runs>>
frameVars == <<arrays, objects, frame>>
vars == <<mainVars, registryVars, normalizerVars, clientVars, metadataVars,
          wireVars, adapterVars, limiterVars, overlapVars, frameVars>>

\* ------------------------------------------------------------ message model
\* the tools the agent was constructed with; ToolDefinition says what each
\* of them is
RegisteredTools == {"ok", "bad", "undef", "slow"}

\* names a provider or a protocol client may ask for
ToolNames == RegisteredTools \cup {"missing"}

\* tool input: whether tool.inputSchema.parse accepts it
Inputs == {"valid", "invalid"}

TextBlock == [type |-> "text", text |-> "t"]

\* id the backend gives the i-th tool-use block of its k-th response
ToolUseId(k, i) == (k - 1) * (MaxCalls + 1) + i

\* ids a protocol client may put into the messages it sends
ClientIds == {900, 901}

IsToolUse(b) == b.type \in {"tool_use", "toolUse"}
IsToolResult(b) == b.type \in {"tool_result", "toolResult"}
\* the tool-use id a tool-result block refers to
RefId(b) == IF b.type = "tool_result" THEN b.tool_use_id ELSE b.toolUseId

\* MessageManager.createToolResultContent
createToolResultContent(toolUseId, content, isError) ==
    [type |-> "tool_result", tool_use_id |-> toolUseId,
     content |-> content, is_error |-> isError]

\* MessageManager.extractToolCalls
extractToolCalls(message) ==
    SelectSeq(message.content, LAMBDA c : c.type = "tool_use")

\* ------------------------------------------------------------------ provider
\* content of a backend response asking for the tools `names` (Anthropic wire
\* form: type "tool_use"); a response asking for no tool is one text block
WireContent(names, firstInput, k) ==
    IF names = <<>> THEN <<TextBlock>>
    ELSE [i \in 1..Len(names) |->
            [type |-> "tool_use", id |-> ToolUseId(k, i), name |-> names[i],
             input |-> IF i = 1 THEN firstInput ELSE "valid"]]

\* provider-anthropic mapContent: wire blocks to the shared message model
mapContent(content) ==
    [i \in 1..Len(content) |->
        IF content[i].type = "tool_use"
        THEN [type |-> "toolUse", id |-> content[i].id,
              name |-> content[i].name, input |-> content[i].input]
        ELSE content[i]]

\* LLMProvider.generateResponse, resolved value.  "stub": a provider written
\* against the agent's own block types (examples/document-analysis-agent.ts);
\* "adapter": LlmProviderAdapter in front of AnthropicProvider.generate
generateResponse(kind, names, firstInput, k) ==
    IF kind = "adapter"
    THEN [role |-> "assistant",
          content |-> mapContent(WireContent(names, firstInput, k))]
    ELSE [role |-> "assistant", content |-> WireContent(names, firstInput, k)]

\* tool requests of one response: no tool, or 1..n tools of which the first
\* is any tool of `first` and the others are "ok"
NameSeqs(n, first) ==
    {<<>>} \cup {[i \in 1..len |-> IF i = 1 THEN t ELSE "ok"] :
                    len \in 1..n, t \in first}

\* what the provider may answer on its k-th call; the responses explored
\* ask for several tools at once in the first answer only, and there for an
\* unregistered tool or a tool with a timeout on its own
ProviderAnswers(k) ==
    IF config.provider = "alwaysToolUse" THEN {<<"ok">>}
    ELSE IF k = 1
         THEN NameSeqs(MaxCalls, {"ok", "bad", "undef"})
                 \cup NameSeqs(1, ToolNames)
         ELSE NameSeqs(1, {"ok", "bad", "undef"})

\* input of the first tool-use block of an answer: input the schema rejects
\* is explored for a call of the tool "ok" on its own in the first answer
ProviderInputs(names, k) ==
    IF k = 1 /\ names = <<"ok">> THEN Inputs ELSE {"valid"}

\* ------------------------------------------------------------- tool registry
\* what a tool's handler settles with: a ToolResult ("ok", "slow"), a
\* rejection ("bad"), or undefined ("undef")
ToolHandler(name) ==
    CASE name \in {"ok", "slow"} ->
            [kind |-> "result", success |-> TRUE, error |-> "none"]
      [] name = "bad" -> [kind |-> "throw", success |-> FALSE, error |-> "threw"]
      [] OTHER -> [kind |-> "undefined", success |-> FALSE, error |-> "none"]

\* ToolDefinition.config.timeout of the agent's tools
ToolTimeout(name) == IF name = "slow" THEN 50 ELSE Undefined

\* ToolRegistry.get on the agent's registry
ToolDefinition(name) ==
    IF name \in RegisteredTools
    THEN [kind |-> "tool", name |-> name, timeout |-> ToolTimeout(name)]
    ELSE None

\* if (timeout): undefined and 0 set no timer
HasTimer(tool) == tool.timeout # Undefined /\ tool.timeout # 0

Failure(error) == [kind |-> "result", success |-> FALSE, error |-> error]

\* execute that lets a handler's rejection through (return without await)
ToolRegistryExecute_NoCatch(tool, input, timerFirst) ==
    IF tool = None THEN Failure("not found")
    ELSE IF input # "valid" THEN Failure("Invalid input")
    ELSE IF HasTimer(tool) /\ timerFirst THEN Failure("timed out")
    ELSE ToolHandler(tool.name)

\* ToolRegistry.execute, what its promise settles with.  tool: the result of
\* this.get(name); timerFirst: the timer fires before the handler settles
ToolRegistryExecute(tool, input, timerFirst) ==
    IF tool = None THEN Failure("not found")
    ELSE IF input # "valid" THEN Failure("Invalid input")
    ELSE IF HasTimer(tool) /\ timerFirst THEN Failure("timed out")
    ELSE LET h == ToolHandler(tool.name)
         IN IF h.kind = "throw" THEN Failure(h.error) ELSE h

\* whether tool.handler is called by execute
InvokesHandler(tool, input) == tool # None /\ input = "valid"

\* the orders in which the timer and the handler of a call may settle
TimerOutcomes(tool, input) ==
    IF InvokesHandler(tool, input) /\ HasTimer(tool) THEN BOOLEAN ELSE {FALSE}

\* ---------------------------------------------------------------- the agent
MaxIterations ==
    IF config.maxIterations = Undefined THEN DefaultMaxIterations
    ELSE config.maxIterations

Configs ==
    [maxIterations : {Undefined} \cup 0..MaxIter,
     provider : {"free", "alwaysToolUse"},
     kind : {"stub", "adapter"},
     errorListener : BOOLEAN,
     onToolCallThrows : BOOLEAN]

\* the state Agent.execute works on, as one record
Cur ==
    [pc |-> pc, iteration |-> iteration, messages |-> messages,
     calls |-> calls, emitted |-> emitted, providerCalls |-> providerCalls,
     toolExecs |-> toolExecs, result |-> result, listening |-> listening,
     events |-> events]

Assign(s) ==
    /\ pc' = s.pc
    /\ iteration' = s.iteration
    /\ messages' = s.messages
    /\ calls' = s.calls
    /\ emitted' = s.emitted
    /\ providerCalls' = s.providerCalls
    /\ toolExecs' = s.toolExecs
    /\ result' = s.result
    /\ listening' = s.listening
    /\ events' = s.events

\* event types Agent.stream registers a handler for
StreamTypes == {"message", "toolCall", "toolResult", "error"}

\* this.emit(type, ...): iter and idx name the iteration and the tool call
\* the event is about (for a tool event: the iteration whose assistant
\* message asked for the call)
EmitAt(s, type, iter, idx) ==
    LET e == [type |-> type, iter |-> iter, idx |-> idx]
    IN [s EXCEPT !.emitted = Append(@, e),
                 !.events = IF s.listening /\ type \in StreamTypes
                            THEN Append(@, e) ELSE @]

Emit(s, type, idx) == EmitAt(s, type, s.iteration, idx)

\* catch (err) { ... } of execute.  EventEmitter.emit("error") throws the
\* error when no listener is registered for "error"
Catch(s, err) ==
    IF config.errorListener \/ s.listening
    THEN [Emit(s, "error", 0) EXCEPT
            !.pc = "done",
            !.result = [kind |-> "result", messages |-> s.messages,
                        iterations |-> s.iteration, error |-> err]]
    ELSE [s EXCEPT !.pc = "rejected"]

\* the code after the while loop: build the result, emit "complete", return
Complete(s) ==
    [Emit(s, "complete", 0) EXCEPT
        !.pc = "done",
        !.result = [kind |-> "result", messages |-> s.messages,
                    iterations |-> s.iteration, error |-> "none"]]

\* LoopTop that leaves the loop one iteration early
\* (iteration + 1 < maxIterations)
LoopTop_StopsEarly(s, isAborted) ==
    IF s.iteration + 1 < MaxIterations
    THEN IF isAborted
         THEN Catch(s, "Execution aborted")
         ELSE [Emit([s EXCEPT !.iteration = @ + 1], "iteration", 0) EXCEPT
                 !.providerCalls = @ + 1,
                 !.pc = "generating"]
    ELSE Complete(s)

\* LoopTop with the loop condition off by one (iteration <= maxIterations)
LoopTop_OffByOne(s, isAborted) ==
    IF s.iteration <= MaxIterations
    THEN IF isAborted
         THEN Catch(s, "Execution aborted")
         ELSE [Emit([s EXCEPT !.iteration = @ + 1], "iteration", 0) EXCEPT
                 !.providerCalls = @ + 1,
                 !.pc = "generating"]
    ELSE Complete(s)

\* top of the while loop up to the await of generateResponse
LoopTop(s, isAborted) ==
    IF s.iteration < MaxIterations
    THEN IF isAborted
         THEN Catch(s, "Execution aborted")
         ELSE [Emit([s EXCEPT !.iteration = @ + 1], "iteration", 0) EXCEPT
                 !.providerCalls = @ + 1,
                 !.pc = "generating"]
    ELSE Complete(s)

RECURSIVE EmitToolCalls(_, _, _)
EmitToolCalls(s, i, n) ==
    IF i > n THEN s ELSE EmitToolCalls(Emit(s, "toolCall", i), i + 1, n)

\* toolCalls.map(async (toolCall) => ...) up to each closure's first await
StartTools(s, toolCalls) ==
    [EmitToolCalls(s, 1, Len(toolCalls)) EXCEPT
        !.calls = [i \in 1..Len(toolCalls) |->
                     [toolCall |-> toolCalls[i], state |-> "running",
                      result |-> None, iter |-> s.iteration, order |-> 0]],
        !.toolExecs = @ + Len(toolCalls),
        !.pc = "tools"]

\* AfterResponse without the `break`: an answer without tool calls goes
\* round the loop again
AfterResponse_NoBreak(s, message) ==
    LET s1 == Emit([s EXCEPT !.messages = Append(@, message)], "message", 0)
        toolCalls == extractToolCalls(message)
    IN IF Len(toolCalls) = 0 THEN LoopTop(s1, FALSE)
       ELSE StartTools(s1, toolCalls)

\* AfterResponse emitting "message" only after the tool calls were started
AfterResponse_MessageLast(s, message) ==
    LET s1 == [s EXCEPT !.messages = Append(@, message)]
        toolCalls == extractToolCalls(message)
    IN IF Len(toolCalls) = 0 THEN Complete(Emit(s1, "message", 0))
       ELSE Emit(StartTools(s1, toolCalls), "message", 0)

\* from the resolution of generateResponse to the next await
AfterResponse(s, message) ==
    LET s1 == Emit([s EXCEPT !.messages = Append(@, message)], "message", 0)
        toolCalls == extractToolCalls(message)
    IN IF Len(toolCalls) = 0 THEN Complete(s1) ELSE StartTools(s1, toolCalls)

\* ToolResultMessage collecting the results in the order the handlers
\* completed instead of the order of the calls
ToolResultMessage_ByCompletion(cs) ==
    [role |-> "user",
     content |-> [i \in 1..Len(cs) |->
        LET c == cs[CHOOSE j \in 1..Len(cs) : cs[j].order = i]
        IN createToolResultContent(
            c.toolCall.id,
            IF c.result.success THEN "data" ELSE "error",
            ~c.result.success)]]

\* toolResults.map(...) and messageManager.addMessage after Promise.all
ToolResultMessage(cs) ==
    [role |-> "user",
     content |-> [i \in 1..Len(cs) |->
        createToolResultContent(
            cs[i].toolCall.id,
            IF cs[i].result.success THEN "data" ELSE "error",
            ~cs[i].result.success)]]

\* AfterTools ending the execution with an error when a tool failed
AfterTools_FailOnError(s, isAborted) ==
    IF \E i \in 1..Len(s.calls) : s.calls[i].result.kind = "undefined"
    THEN Catch(s, "TypeError")
    ELSE IF \E i \in 1..Len(s.calls) : ~s.calls[i].result.success
    THEN Catch(s, "tool failed")
    ELSE LoopTop([s EXCEPT !.messages = Append(@, ToolResultMessage(s.calls))],
                 isAborted)

\* Promise.all resolved: aggregate, append, go round the loop
AfterTools(s, isAborted) ==
    IF \E i \in 1..Len(s.calls) : s.calls[i].result.kind = "undefined"
    THEN Catch(s, "TypeError")
    ELSE LoopTop([s EXCEPT !.messages = Append(@, ToolResultMessage(s.calls))],
                 isAborted)

\* initial conversations a caller may pass to execute
UserText == [role |-> "user", content |-> <<TextBlock>>]
InitialConversations == {<<>>, <<UserText>>}

\* const messageManager = new MessageManager(initialMessages) ... first await
StartExecute(im, isListening, isAborted) ==
    LoopTop([pc |-> "idle", iteration |-> 0, messages |-> im,
             calls |-> <<>>, emitted |-> <<>>, providerCalls |-> 0,
             toolExecs |-> 0, result |-> None, listening |-> isListening,
             events |-> <<>>], isAborted)

\* no execute, stream or request has started
AgentIdle ==
    /\ mode = "none"
    /\ aborted = FALSE
    /\ initialMessages = <<>>
    /\ pc = "idle"
    /\ iteration = 0
    /\ messages = <<>>
    /\ calls = <<>>
    /\ emitted = <<>>
    /\ providerCalls = 0
    /\ toolExecs = 0
    /\ result = None
    /\ listening = FALSE
    /\ streamPc = "none"
    /\ events = <<>>
    /\ lastYieldedIndex = 0
    /\ yielded = <<>>
    /\ initialized = FALSE
    /\ request = None
    /\ response = None
    /\ initSuccesses = 0
    /\ handlerCalls = {}

\* a ToolRegistry right after construction, no execute call made
RegistryIdle ==
    /\ tools = {}
    /\ regOp = [op |-> "none", names |-> {}, threw |-> FALSE, tick |-> 0]
    /\ exec = [pc |-> "idle", tool |-> None, input |-> "valid",
               handler |-> "none", timer |-> "none", result |-> None,
               first |-> "none"]

\* AnthropicProvider.stream before its first chunk
NormalizerIdle ==
    /\ nzPc = "running"
    /\ partialBlockType = "undefined"
    /\ partialToolUseBuffer = <<>>
    /\ partialToolUseBlock = None
    /\ chunks = <<>>
    /\ partials = <<>>

\* an AcpClient right after construction
ClientIdle ==
    /\ nextId = 1
    /\ pendingRequests = {}
    /\ clientInitialized = FALSE
    /\ sent = <<>>
    /\ lastCall = "none"
    /\ rawResponse = None

\* the Map objects a behaviour can hold: 0 is the one the application made,
\* e is the one the memory tool makes in the e-th execution
Executions == {1, 2}
MapIds == {0} \cup Executions

\* Agent.execute not called yet
IdleExecution ==
    [state |-> "idle", memory |-> Undefined, keys |-> {}, late |-> FALSE,
     stored |-> {}, result |-> None]

\* no execution started, the application holds a metadata object without
\* entries
MetadataIdle ==
    /\ callerMetadata = [memory |-> Undefined]
    /\ maps = [m \in MapIds |-> {}]
    /\ executions = [e \in Executions |-> IdleExecution]

\* no completion/complete request sent to the server in front of the
\* Anthropic provider
WireIdle ==
    /\ wirePc = "idle"
    /\ wireRequest = <<>>
    /\ wireMessages = <<>>
    /\ backendRequest = None
    /\ backendResponse = None
    /\ wireResponse = None

\* no AcpAdapter.complete call made
AdapterCallIds == {1, 2}
IdleCall == [pc |-> "idle", req |-> 0, reason |-> "none", code |-> 0]
AdapterIdle == adapterCalls = [k \in AdapterCallIds |-> IdleCall]

\* a RateLimiter nobody has called
Callers == {1, 2, 3}
LimiterIdle ==
    /\ limiterConfig = [maxConcurrent |-> 1, minDelay |-> 0]
    /\ running = 0
    /\ queue = <<>>
    /\ callers = [c \in Callers |-> [pc |-> "idle", run |-> FALSE]]

\* an Agent without listeners on which nothing runs
RunIds == {1, 2}
IdleRun ==
    [kind |-> "none", pc |-> "idle", step |-> 0, streamPc |-> "none",
     events |-> <<>>, lastYieldedIndex |-> 0, yielded |-> <<>>,
     ended |-> "none", before |-> [t \in StreamTypes |-> {}]]
OverlapIdle ==
    /\ listeners = [t \in StreamTypes |-> {}]
    /\ runs = [r \in RunIds |-> IdleRun]

\* the heap before the application calls execute with arguments of its own:
\* array 0 / object 0 are the application's, array 1 / object 1 are the
\* ones execute makes
ArrayIds == {0, 1}
ObjectIds == {0, 1}
MetadataKeys == {"memory", "a"}
NoEntries == [k \in MetadataKeys |-> Undefined]
IdleFrame ==
    [pc |-> "idle", messages |-> Undefined, metadata |-> Undefined,
     before |-> None, iterations |-> 0, result |-> None]
FrameIdle ==
    /\ arrays = [a \in ArrayIds |-> <<>>]
    /\ objects = [o \in ObjectIds |-> NoEntries]
    /\ frame = IdleFrame

\* the agent behind that server when no request is explored
NoWireConfig ==
    [systemPrompt |-> "<undefined>", maxIterations |-> 1, errorListener |-> TRUE]

Init ==
    /\ config \in {c \in Configs :
          /\ c.maxIterations = Undefined => c.provider = "alwaysToolUse"
          /\ c.provider = "alwaysToolUse" => c.kind = "stub"}
    /\ AgentIdle
    /\ RegistryIdle
    /\ NormalizerIdle
    /\ ClientIdle
    /\ AdapterIdle
    /\ LimiterIdle
    /\ OverlapIdle
    /\ FrameIdle
    /\ MetadataIdle
    /\ WireIdle
    /\ wireConfig = NoWireConfig

\* agent.execute(options) called by application code
CallExecute ==
    /\ mode = "none"
    /\ request = None
    /\ \E im \in InitialConversations, ab \in BOOLEAN :
          /\ mode' = "execute"
          /\ aborted' = ab
          /\ initialMessages' = im
          /\ Assign(StartExecute(im, FALSE, ab))
    /\ UNCHANGED <<registryVars, normalizerVars, clientVars, metadataVars, adapterVars, limiterVars, overlapVars, frameVars, wireVars, config, streamVars, serverVars, toolVars>>

\* controller.abort() by application code
Abort ==
    /\ mode \in {"execute", "stream"}
    /\ ~aborted
    /\ pc \in {"generating", "tools"}
    /\ aborted' = TRUE
    /\ UNCHANGED <<registryVars, normalizerVars, clientVars, metadataVars, adapterVars, limiterVars, overlapVars, frameVars, wireVars, config, mode, initialMessages, agentVars, streamVars,
                   serverVars, toolVars>>

\* the handlers toolRegistry.execute invokes for the calls of a message
HandlerCallsOf(toolCalls) ==
    {[name |-> toolCalls[i].name, input |-> toolCalls[i].input,
      via |-> "registry"] :
        i \in {j \in 1..Len(toolCalls) :
                 InvokesHandler(ToolDefinition(toolCalls[j].name),
                                toolCalls[j].input)}}

\* the promise of generateResponse resolves
ProviderRespond ==
    /\ pc = "generating"
    /\ \E names \in ProviderAnswers(providerCalls) :
         \E input \in ProviderInputs(names, providerCalls) :
          LET message == generateResponse(config.kind, names, input,
                                          providerCalls)
          IN /\ Assign(AfterResponse(Cur, message))
             /\ handlerCalls' =
                   handlerCalls \cup HandlerCallsOf(extractToolCalls(message))
    /\ UNCHANGED <<registryVars, normalizerVars, clientVars, metadataVars, adapterVars, limiterVars, overlapVars, frameVars, wireVars, config, mode, aborted, initialMessages, streamVars, serverVars>>

\* the promise of generateResponse rejects
ProviderFail ==
    /\ pc = "generating"
    /\ config.provider = "free"
    /\ Assign(Catch(Cur, "provider"))
    /\ UNCHANGED <<registryVars, normalizerVars, clientVars, metadataVars, adapterVars, limiterVars, overlapVars, frameVars, wireVars, config, mode, aborted, initialMessages, streamVars, serverVars, toolVars>>

AllResolved(cs) == \A j \in 1..Len(cs) : cs[j].state = "resolved"

\* toolRegistry.execute of the i-th closure resolves; the closure runs to its
\* end, and Promise.all settles if this was what it waited for
ToolComplete(i) ==
    /\ i \in 1..Len(calls)
    /\ calls[i].state = "running"
    /\ \E timerFirst \in TimerOutcomes(ToolDefinition(calls[i].toolCall.name),
                                       calls[i].toolCall.input) :
       LET r == ToolRegistryExecute(ToolDefinition(calls[i].toolCall.name),
                                    calls[i].toolCall.input, timerFirst)
           s1 == EmitAt(Cur, "toolResult", calls[i].iter, i)
           nth == 1 + Cardinality({j \in 1..Len(calls) :
                                      calls[j].state # "running"})
       IN IF config.onToolCallThrows
          THEN LET s2 == [s1 EXCEPT !.calls[i].state = "rejected",
                                    !.calls[i].order = nth]
               IN Assign(IF pc = "tools" THEN Catch(s2, "onToolCall") ELSE s2)
          ELSE LET s2 == [s1 EXCEPT !.calls[i].state = "resolved",
                                    !.calls[i].result = r,
                                    !.calls[i].order = nth]
               IN Assign(IF pc = "tools" /\ AllResolved(s2.calls)
                         THEN AfterTools(s2, aborted) ELSE s2)
    /\ UNCHANGED <<registryVars, normalizerVars, clientVars, metadataVars, adapterVars, limiterVars, overlapVars, frameVars, wireVars, config, mode, aborted, initialMessages, streamVars, serverVars, toolVars>>

\* ---------------------------------------------------------------- Agent.stream
\* first next() of the generator: register the four handlers, call
\* this.execute({...options, stream: true}), enter the polling loop.
\* Streams are explored for agents with a configured maxIterations
CallStream ==
    /\ mode = "none"
    /\ request = None
    /\ config.maxIterations # Undefined
    /\ \E im \in InitialConversations, ab \in BOOLEAN :
          /\ mode' = "stream"
          /\ aborted' = ab
          /\ initialMessages' = im
          /\ Assign(StartExecute(im, TRUE, ab))
    /\ streamPc' = "drain"
    /\ lastYieldedIndex' = 0
    /\ yielded' = <<>>
    /\ UNCHANGED <<registryVars, normalizerVars, clientVars, metadataVars, adapterVars, limiterVars, overlapVars, frameVars, wireVars, config, serverVars, toolVars>>

\* while (lastYieldedIndex < events.length) yield events[lastYieldedIndex++]
StreamYield ==
    /\ streamPc = "drain"
    /\ lastYieldedIndex < Len(events)
    /\ yielded' = Append(yielded, events[lastYieldedIndex + 1])
    /\ lastYieldedIndex' = lastYieldedIndex + 1
    /\ UNCHANGED <<registryVars, normalizerVars, clientVars, metadataVars, adapterVars, limiterVars, overlapVars, frameVars, wireVars, config, mode, aborted, initialMessages, agentVars, streamPc,
                   serverVars, toolVars>>

\* the inner while ends; await Promise.race([executionPromise, 100ms timer])
StreamRace ==
    /\ streamPc = "drain"
    /\ lastYieldedIndex >= Len(events)
    /\ streamPc' = "race"
    /\ UNCHANGED <<registryVars, normalizerVars, clientVars, metadataVars, adapterVars, limiterVars, overlapVars, frameVars, wireVars, config, mode, aborted, initialMessages, agentVars,
                   lastYieldedIndex, yielded, serverVars, toolVars>>

\* the race is won by executionPromise: yield the complete event, return,
\* and the finally block removes the handlers
StreamComplete ==
    /\ streamPc = "race"
    /\ pc = "done"
    /\ yielded' = Append(yielded, [type |-> "complete",
                                   iter |-> result.iterations, idx |-> 0])
    /\ streamPc' = "done"
    /\ listening' = FALSE
    /\ UNCHANGED <<registryVars, normalizerVars, clientVars, metadataVars, adapterVars, limiterVars, overlapVars, frameVars, wireVars, config, mode, aborted, initialMessages, pc, iteration, messages,
                   calls, emitted, providerCalls, toolExecs, result, events,
                   lastYieldedIndex, serverVars, toolVars>>

\* the race is won by the 100ms timer: result is undefined; sleep 10ms
StreamTimeout ==
    /\ streamPc = "race"
    /\ pc # "done"
    /\ streamPc' = "sleep"
    /\ UNCHANGED <<registryVars, normalizerVars, clientVars, metadataVars, adapterVars, limiterVars, overlapVars, frameVars, wireVars, config, mode, aborted, initialMessages, agentVars,
                   lastYieldedIndex, yielded, serverVars, toolVars>>

\* the 10ms timer fires: back to the top of while (true)
StreamWake ==
    /\ streamPc = "sleep"
    /\ streamPc' = "drain"
    /\ UNCHANGED <<registryVars, normalizerVars, clientVars, metadataVars, adapterVars, limiterVars, overlapVars, frameVars, wireVars, config, mode, aborted, initialMessages, agentVars,
                   lastYieldedIndex, yielded, serverVars, toolVars>>

\* ------------------------------------------------------------------ AcpServer
Methods == {"initialize", "prompts/list", "prompts/get", "tools/list",
            "tools/call", "completion/complete"}
RequestIds == {1, 2}

\* names passed to prompts/get and tools/call; "missing" names nothing
PromptNames == {"greet"}

\* protocol messages (CompletionMessage) a client may send
AcpText(role) == [role |-> role, content |-> [type |-> "text", text |-> "t"]]
AcpToolCall(id) ==
    [role |-> "assistant",
     content |-> [type |-> "tool_call", toolCallId |-> id, toolName |-> "ok",
                  arguments |-> "valid"]]
AcpToolResponse(id) ==
    [role |-> "user",
     content |-> [type |-> "tool_response", toolCallId |-> id,
                  isError |-> FALSE]]
AcpConversations ==
    {<<>>, <<AcpText("user")>>, <<AcpText("assistant"), AcpText("user")>>,
     <<AcpToolResponse(900)>>,
     <<AcpToolCall(900), AcpToolResponse(900)>>,
     <<AcpToolCall(900), AcpToolResponse(901)>>}

\* params of a request: "missing" is a request without params
ParamsOf(method) ==
    CASE method = "prompts/get" ->
            {[name |-> n] : n \in PromptNames \cup {"missing"}}
      [] method = "tools/call" ->
            {[name |-> n, arguments |-> a] : n \in ToolNames, a \in Inputs}
      [] method = "completion/complete" ->
            {[messages |-> m] : m \in AcpConversations}
      [] OTHER -> {[protocolVersion |-> "1.0.0"]}

\* the requests explored; a completion/complete request with params, which
\* starts an execution, is explored with the id 1 only
Requests ==
    UNION {{[id |-> i, method |-> m, hasParams |-> TRUE, params |-> p] :
                i \in IF m = "completion/complete" THEN {1} ELSE RequestIds,
                p \in ParamsOf(m)} \cup
           {[id |-> i, method |-> m, hasParams |-> FALSE, params |-> None] :
                i \in RequestIds}
           : m \in Methods \cup {"nonexistent"}}

\* what a handleRequest call settled with
ResultResponse(id, body) ==
    [kind |-> "result", id |-> id, code |-> 0, body |-> body]
\* createErrorResponse that does not carry the request's id
createErrorResponse_NoId(id, code) ==
    [kind |-> "error", id |-> 0, code |-> code, body |-> <<>>]

\* AcpServer.createErrorResponse
createErrorResponse(id, code) ==
    [kind |-> "error", id |-> id, code |-> code, body |-> <<>>]
\* the promise handleRequest returned was rejected
Rejected == [kind |-> "rejected", id |-> 0, code |-> 0, body |-> <<>>]
Pending == [kind |-> "pending", id |-> 0, code |-> 0, body |-> <<>>]

\* AcpServer.convertAcpMessages
convertAcpMessages(msgs) ==
    [i \in 1..Len(msgs) |->
        [role |-> msgs[i].role,
         content |->
            CASE msgs[i].content.type = "text" ->
                    <<[type |-> "text", text |-> msgs[i].content.text]>>
              [] msgs[i].content.type = "tool_call" ->
                    <<[type |-> "toolUse", id |-> msgs[i].content.toolCallId,
                       name |-> msgs[i].content.toolName,
                       input |-> msgs[i].content.arguments]>>
              [] msgs[i].content.type = "tool_response" ->
                    <<[type |-> "toolResult",
                       toolUseId |-> msgs[i].content.toolCallId,
                       isError |-> msgs[i].content.isError]>>
              [] OTHER -> <<>>]]

\* convertToAcpContent that always returns the array
convertToAcpContent_AlwaysArray(message) ==
    LET kept == SelectSeq(message.content,
                          LAMBDA b : b.type \in {"text", "toolUse"})
        contents == [i \in 1..Len(kept) |->
            IF kept[i].type = "text"
            THEN [type |-> "text", text |-> kept[i].text]
            ELSE [type |-> "tool_call", toolCallId |-> kept[i].id,
                  toolName |-> kept[i].name, arguments |-> kept[i].input]]
    IN [shape |-> "array", items |-> contents]

\* AcpServer.convertToAcpContent: one content when there is exactly one,
\* the array otherwise
convertToAcpContent(message) ==
    LET kept == SelectSeq(message.content,
                          LAMBDA b : b.type \in {"text", "toolUse"})
        contents == [i \in 1..Len(kept) |->
            IF kept[i].type = "text"
            THEN [type |-> "text", text |-> kept[i].text]
            ELSE [type |-> "tool_call", toolCallId |-> kept[i].id,
                  toolName |-> kept[i].name, arguments |-> kept[i].input]]
    IN [shape |-> IF Len(contents) = 1 THEN "single" ELSE "array",
        items |-> contents]

\* AcpServer.handleInitialize; the TypeError of params.protocolVersion on a
\* request without params is thrown after this.initialized = true
handleInitialize(req, init) ==
    IF init
    THEN [response |-> createErrorResponse(req.id, INVALID_REQUEST),
          initialized |-> init, threw |-> FALSE]
    ELSE IF ~req.hasParams
         THEN [response |-> None, initialized |-> TRUE, threw |-> TRUE]
         ELSE [response |-> ResultResponse(req.id, <<>>),
               initialized |-> TRUE, threw |-> FALSE]

\* AcpServer.handleGetPrompt
handleGetPrompt(req) ==
    IF ~req.hasParams
    THEN [response |-> None, threw |-> TRUE]
    ELSE IF req.params.name \notin PromptNames
         THEN [response |-> createErrorResponse(req.id, INVALID_PARAMS),
               threw |-> FALSE]
         ELSE [response |-> ResultResponse(req.id, <<>>), threw |-> FALSE]

\* the handler invocation of handleCallTool: tool.handler(params.arguments
\* ?? {}, ...) on the tool found by name
CallToolHandlerCalls(req) ==
    IF req.method = "tools/call" /\ req.hasParams
          /\ req.params.name \in RegisteredTools
    THEN {[name |-> req.params.name, input |-> req.params.arguments,
           via |-> "tools/call"]}
    ELSE {}

\* AcpServer.handleCallTool, an async method: what its promise settles with.
\* A failure of the handler (or of reading its result) is caught inside.
handleCallTool(req) ==
    IF ~req.hasParams
    THEN Rejected
    ELSE IF req.params.name \notin RegisteredTools
         THEN createErrorResponse(req.id, INVALID_PARAMS)
         ELSE LET h == ToolHandler(req.params.name)
              IN ResultResponse(req.id,
                    <<[isError |-> IF h.kind = "result" THEN ~h.success
                                   ELSE TRUE]>>)

\* handleRequest for the methods that settle without running the agent.
\* The try/catch of handleRequest catches what a handler throws
\* synchronously; `return this.handleX(request)` without await hands a
\* rejected promise of an async handler straight to the caller.
HandleRequest(req) ==
    /\ mode = "none"
    /\ \/ req.method # "completion/complete"
       \/ ~req.hasParams
    /\ request' = req
    /\ LET init == handleInitialize(req, initialized)
           prompt == handleGetPrompt(req)
       IN CASE req.method = "initialize" ->
                 /\ initialized' = init.initialized
                 /\ response' = IF init.threw
                                THEN createErrorResponse(req.id, INTERNAL_ERROR)
                                ELSE init.response
            [] req.method = "prompts/get" ->
                 /\ initialized' = initialized
                 /\ response' = IF prompt.threw
                                THEN createErrorResponse(req.id, INTERNAL_ERROR)
                                ELSE prompt.response
            [] req.method \in {"prompts/list", "tools/list"} ->
                 /\ initialized' = initialized
                 /\ response' = ResultResponse(req.id, <<>>)
            [] req.method = "tools/call" ->
                 /\ initialized' = initialized
                 /\ response' = handleCallTool(req)
            [] req.method = "completion/complete" ->
                 /\ initialized' = initialized
                 /\ response' = Rejected
            [] OTHER ->
                 /\ initialized' = initialized
                 /\ response' = createErrorResponse(req.id, METHOD_NOT_FOUND)
    /\ initSuccesses' = IF req.method = "initialize" /\ response'.kind = "result"
                        THEN initSuccesses + 1 ELSE initSuccesses
    /\ handlerCalls' = CallToolHandlerCalls(req)
    /\ UNCHANGED <<registryVars, normalizerVars, clientVars, metadataVars, adapterVars, limiterVars, overlapVars, frameVars, wireVars, config, mode, aborted, initialMessages, agentVars, streamVars>>

\* handleRequest -> handleComplete up to `await this.agent.execute(...)`
HandleCompleteStart(req) ==
    /\ mode = "none"
    /\ req.method = "completion/complete"
    /\ req.hasParams
    /\ request' = req
    /\ response' = Pending
    /\ mode' = "acp"
    /\ initialMessages' = convertAcpMessages(req.params.messages)
    /\ Assign(StartExecute(convertAcpMessages(req.params.messages),
                           FALSE, FALSE))
    /\ handlerCalls' = {}
    /\ UNCHANGED <<registryVars, normalizerVars, clientVars, metadataVars, adapterVars, limiterVars, overlapVars, frameVars, wireVars, config, aborted, streamVars, initialized, initSuccesses>>

\* last element of result.messages.filter(m => m.role === "assistant")
LastAssistant(msgs) ==
    LET a == SelectSeq(msgs, LAMBDA m : m.role = "assistant")
    IN IF Len(a) = 0 THEN None ELSE a[Len(a)]

\* handleComplete after agent.execute settled
HandleCompleteFinish ==
    /\ response.kind = "pending"
    /\ pc \in {"done", "rejected"}
    /\ response' =
          IF pc = "rejected" THEN Rejected
          ELSE LET lastMessage == LastAssistant(result.messages)
               IN IF lastMessage = None
                  THEN createErrorResponse(request.id, INTERNAL_ERROR)
                  ELSE ResultResponse(request.id,
                                      <<convertToAcpContent(lastMessage)>>)
    /\ UNCHANGED <<registryVars, normalizerVars, clientVars, metadataVars, adapterVars, limiterVars, overlapVars, frameVars, wireVars, config, mode, aborted, initialMessages, agentVars, streamVars,
                   initialized, request, initSuccesses, toolVars>>

Next ==
    \/ \E req \in Requests : HandleRequest(req)
    \/ \E req \in Requests : HandleCompleteStart(req)
    \/ HandleCompleteFinish
    \/ CallExecute
    \/ Abort
    \/ ProviderRespond
    \/ ProviderFail
    \/ \E i \in 1..MaxCalls : ToolComplete(i)
    \/ CallStream
    \/ StreamYield
    \/ StreamRace
    \/ StreamComplete
    \/ StreamTimeout
    \/ StreamWake

Spec == Init /\ [][Next]_vars

TypeOK ==
    /\ pc \in {"idle", "generating", "tools", "done", "rejected"}
    /\ iteration \in 0..DefaultMaxIterations
    /\ mode \in {"none", "execute", "stream", "acp"}
    /\ streamPc \in {"none", "drain", "race", "sleep", "done"}
    /\ lastYieldedIndex <= Len(events)
    /\ initSuccesses \in 0..1

\* =============================================================== ToolRegistry
\* One behaviour of SpecRegistry works on one ToolRegistry: tools are
\* registered and unregistered, and execute is called, one call at a time;
\* the handler and the timer of a call settle in either order.

\* the tool definitions callers register: two names, and for each name
\* definitions that differ in config.timeout (not set, 0, 50)
RegistryTools ==
    {[kind |-> "tool", name |-> n, timeout |-> t] :
        n \in {"ok", "bad"}, t \in {Undefined, 0, 50}}

\* this.tools.has(name)
Has(ts, name) == \E e \in ts : e.name = name

\* this.tools.get(name)
Get(ts, name) ==
    IF Has(ts, name) THEN (CHOOSE e \in ts : e.name = name).tool ELSE None

\* this.tools.set(name, tool)
MapSet(ts, name, tool) ==
    {e \in ts : e.name # name} \cup {[name |-> name, tool |-> tool]}

\* this.tools.delete(name)
MapDelete(ts, name) == {e \in ts : e.name # name}

\* register without the has() check: the later registration wins
register_Overwrite(ts, tool) ==
    [tools |-> MapSet(ts, tool.name, tool), threw |-> FALSE]

\* ToolRegistry.register: the registry afterwards, and whether it threw
register(ts, tool) ==
    IF Has(ts, tool.name)
    THEN [tools |-> ts, threw |-> TRUE]
    ELSE [tools |-> MapSet(ts, tool.name, tool), threw |-> FALSE]

RECURSIVE registerMany(_, _)
\* ToolRegistry.registerMany: register one by one, the first throw ends it
registerMany(ts, list) ==
    IF list = <<>> THEN [tools |-> ts, threw |-> FALSE]
    ELSE LET r == register(ts, Head(list))
         IN IF r.threw THEN r ELSE registerMany(r.tools, Tail(list))

\* registry.register(tool)
RegistryRegister(tool) ==
    /\ exec.pc # "pending"
    /\ tools' = register(tools, tool).tools
    /\ regOp' = [op |-> "register", names |-> {tool.name},
                 threw |-> register(tools, tool).threw,
                 tick |-> 1 - regOp.tick]
    /\ UNCHANGED <<mainVars, normalizerVars, clientVars, metadataVars, adapterVars, limiterVars, overlapVars, frameVars, wireVars, exec>>

\* registry.registerMany([first, second])
RegistryRegisterMany(list) ==
    /\ exec.pc # "pending"
    /\ tools' = registerMany(tools, list).tools
    /\ regOp' = [op |-> "registerMany",
                 names |-> {list[i].name : i \in 1..Len(list)},
                 threw |-> registerMany(tools, list).threw,
                 tick |-> 1 - regOp.tick]
    /\ UNCHANGED <<mainVars, normalizerVars, clientVars, metadataVars, adapterVars, limiterVars, overlapVars, frameVars, wireVars, exec>>

\* registry.unregister(name)
RegistryUnregister(name) ==
    /\ exec.pc # "pending"
    /\ tools' = MapDelete(tools, name)
    /\ regOp' = [op |-> "unregister", names |-> {name}, threw |-> FALSE,
                 tick |-> 1 - regOp.tick]
    /\ UNCHANGED <<mainVars, normalizerVars, clientVars, metadataVars, adapterVars, limiterVars, overlapVars, frameVars, wireVars, exec>>

\* a promise settles once: the first settlement stays
Settle(e, value, by) ==
    IF e.pc = "pending"
    THEN [e EXCEPT !.pc = "settled", !.result = value, !.first = by]
    ELSE e

\* registry.execute(name, input, context) up to its first await: look the
\* tool up, validate, start the handler and, if (timeout), the timer
RegistryExecute(name, input) ==
    /\ exec.pc # "pending"
    /\ exec.handler # "running"
    /\ exec.timer # "armed"
    /\ LET tool == Get(tools, name)
           started == [pc |-> "pending", tool |-> tool, input |-> input,
                       handler |-> "none", timer |-> "none",
                       result |-> None, first |-> "none"]
       IN exec' =
            IF ~InvokesHandler(tool, input)
            THEN Settle(started, ToolRegistryExecute(tool, input, FALSE),
                        "execute")
            ELSE [started EXCEPT
                    !.handler = "running",
                    !.timer = IF HasTimer(tool) THEN "armed" ELSE "none"]
    /\ UNCHANGED <<mainVars, normalizerVars, clientVars, metadataVars, adapterVars, limiterVars, overlapVars, frameVars, wireVars, tools, regOp>>

\* the handler's promise settles
RegistryHandlerSettles ==
    /\ exec.handler = "running"
    /\ exec' = [Settle(exec, ToolRegistryExecute(exec.tool, exec.input, FALSE),
                       "handler")
                  EXCEPT !.handler =
                     IF ToolHandler(exec.tool.name).kind = "throw"
                     THEN "rejected" ELSE "resolved"]
    /\ UNCHANGED <<mainVars, normalizerVars, clientVars, metadataVars, adapterVars, limiterVars, overlapVars, frameVars, wireVars, tools, regOp>>

\* the timer firing without effect until the handler has settled
RegistryTimerFires_AfterHandler ==
    /\ exec.timer = "armed"
    /\ exec' = [(IF exec.handler = "running" THEN exec
                 ELSE Settle(exec,
                        ToolRegistryExecute(exec.tool, exec.input, TRUE),
                        "timer"))
                  EXCEPT !.timer = "fired"]
    /\ UNCHANGED <<mainVars, normalizerVars, clientVars, metadataVars, adapterVars, limiterVars, overlapVars, frameVars, wireVars, tools, regOp>>

\* the setTimeout callback runs: timeoutPromise rejects
RegistryTimerFires ==
    /\ exec.timer = "armed"
    /\ exec' = [Settle(exec, ToolRegistryExecute(exec.tool, exec.input, TRUE),
                       "timer")
                  EXCEPT !.timer = "fired"]
    /\ UNCHANGED <<mainVars, normalizerVars, clientVars, metadataVars, adapterVars, limiterVars, overlapVars, frameVars, wireVars, tools, regOp>>

\* a fresh registry next to an idle agent
InitRegistry ==
    /\ config = [maxIterations |-> 1, provider |-> "free", kind |-> "stub",
                 errorListener |-> TRUE, onToolCallThrows |-> FALSE]
    /\ AgentIdle
    /\ RegistryIdle
    /\ NormalizerIdle
    /\ ClientIdle
    /\ AdapterIdle
    /\ LimiterIdle
    /\ OverlapIdle
    /\ FrameIdle
    /\ MetadataIdle
    /\ WireIdle
    /\ wireConfig = NoWireConfig

NextRegistry ==
    \/ \E tool \in RegistryTools : RegistryRegister(tool)
    \/ \E first \in RegistryTools, second \in RegistryTools :
          RegistryRegisterMany(<<first, second>>)
    \/ \E name \in {"ok", "bad"} : RegistryUnregister(name)
    \/ \E name \in {"ok", "bad"}, input \in Inputs : RegistryExecute(name, input)
    \/ RegistryHandlerSettles
    \/ RegistryTimerFires

SpecRegistry == InitRegistry /\ [][NextRegistry]_vars

\* ==================================================== AnthropicProvider.stream
\* One behaviour of SpecNormalizer is one call of stream(): messageStream
\* delivers up to MaxChunks chunks and may complete after any of them.

\* characters of the partial_json fragments explored
JsonChars == {"1", "{", "}"}

\* partial_json of an input_json_delta: empty, or one character
Fragments == {<<>>} \cup {<<ch>> : ch \in JsonChars}

RECURSIVE Decimal(_)
\* value of a string of digits
Decimal(buf) ==
    IF buf = <<>> THEN 0 ELSE 10 * Decimal(SubSeq(buf, 1, Len(buf) - 1)) + 1

\* JSON.parse on the texts these characters spell: a run of digits is a
\* number, "{}" is the empty object, everything else (the empty string
\* included) throws
JsonParse(buf) ==
    IF buf # <<>> /\ \A i \in 1..Len(buf) : buf[i] = "1"
    THEN [ok |-> TRUE, value |-> [t |-> "number", n |-> Decimal(buf)]]
    ELSE IF buf = <<"{", "}">>
    THEN [ok |-> TRUE, value |-> [t |-> "object", n |-> 0]]
    ELSE [ok |-> FALSE, value |-> [t |-> "none", n |-> 0]]

\* chunk.content_block.input of a tool_use start chunk
EmptyInput == [t |-> "object", n |-> 0]

\* the chunks messageStream may deliver; "message_delta" stands for the
\* chunk types no branch of the loop matches
Chunks ==
    {[type |-> "content_block_start", kind |-> k, text |-> <<>>] :
        k \in {"text", "tool_use", "thinking"}}
    \cup {[type |-> "content_block_delta", kind |-> k, text |-> <<>>] :
        k \in {"text_delta", "thinking_delta", "signature_delta"}}
    \cup {[type |-> "content_block_delta", kind |-> "input_json_delta",
           text |-> f] : f \in Fragments}
    \cup {[type |-> "content_block_stop", kind |-> "none", text |-> <<>>],
          [type |-> "message_delta", kind |-> "none", text |-> <<>>]}

\* the loop's local variables and what it has yielded, as one record
NzCur ==
    [partialBlockType |-> partialBlockType,
     partialToolUseBuffer |-> partialToolUseBuffer,
     partialToolUseBlock |-> partialToolUseBlock,
     partials |-> partials, failed |-> FALSE]

\* yield of one PartialReturn
Yield(st, type, isStart, isEnd, text, input) ==
    [st EXCEPT !.partials = Append(@, [type |-> type, isStart |-> isStart,
                                       isEnd |-> isEnd, text |-> text,
                                       input |-> input])]

\* throw new Error(...), or a throw of JSON.parse
Throw(st) == [st EXCEPT !.failed = TRUE]

NoInput == [t |-> "none", n |-> 0]

\* content_block_start of a text block
OnTextStart(st) ==
    IF st.partialBlockType # "undefined" THEN Throw(st)
    ELSE Yield([st EXCEPT !.partialBlockType = "text"],
               "text", TRUE, FALSE, <<>>, NoInput)

\* text_delta
OnTextDelta(st, chunk) ==
    IF st.partialBlockType # "text" THEN Throw(st)
    ELSE Yield(st, "text", FALSE, FALSE, chunk.text, NoInput)

\* OnTextStop leaving partialBlockType set
OnTextStop_NoReset(st) ==
    Yield(st, "text", FALSE, TRUE, <<>>, NoInput)

\* content_block_stop while a text block is open
OnTextStop(st) ==
    [Yield(st, "text", FALSE, TRUE, <<>>, NoInput)
        EXCEPT !.partialBlockType = "undefined"]

\* OnToolUseStart without the check for an open block
OnToolUseStart_NoCheck(st) ==
    Yield([st EXCEPT !.partialBlockType = "toolUse",
                     !.partialToolUseBuffer = <<>>,
                     !.partialToolUseBlock = [input |-> EmptyInput]],
          "toolUse", TRUE, FALSE, <<>>, EmptyInput)

\* content_block_start of a tool_use block
OnToolUseStart(st) ==
    IF st.partialBlockType # "undefined" THEN Throw(st)
    ELSE Yield([st EXCEPT !.partialBlockType = "toolUse",
                          !.partialToolUseBuffer = <<>>,
                          !.partialToolUseBlock = [input |-> EmptyInput]],
               "toolUse", TRUE, FALSE, <<>>, EmptyInput)

\* OnToolUseDelta replacing the buffer by the fragment (= instead of +=)
OnToolUseDelta_Overwrite(st, chunk) ==
    IF st.partialBlockType # "toolUse" THEN Throw(st)
    ELSE Yield([st EXCEPT !.partialToolUseBuffer = chunk.text],
               "toolUse", FALSE, FALSE, chunk.text,
               st.partialToolUseBlock.input)

\* input_json_delta
OnToolUseDelta(st, chunk) ==
    IF st.partialBlockType # "toolUse" THEN Throw(st)
    ELSE Yield([st EXCEPT !.partialToolUseBuffer = @ \o chunk.text],
               "toolUse", FALSE, FALSE, chunk.text,
               st.partialToolUseBlock.input)

\* content_block_stop while a tool_use block is open
OnToolUseStop(st) ==
    IF Len(st.partialToolUseBuffer) = 0 THEN Throw(st)
    ELSE IF ~JsonParse(st.partialToolUseBuffer).ok THEN Throw(st)
    ELSE LET input == JsonParse(st.partialToolUseBuffer).value
         IN [Yield([st EXCEPT !.partialToolUseBlock.input = input],
                   "toolUse", FALSE, TRUE, <<>>, input)
                EXCEPT !.partialBlockType = "undefined"]

\* content_block_start of a thinking block
OnThinkingStart(st) ==
    IF st.partialBlockType # "undefined" THEN Throw(st)
    ELSE [Yield(st, "thinking", TRUE, FALSE, <<>>, NoInput)
            EXCEPT !.partialBlockType = "thinking"]

\* thinking_delta and signature_delta
OnThinkingDelta(st, chunk) ==
    IF st.partialBlockType # "thinking" THEN Throw(st)
    ELSE Yield(st, "thinking", FALSE, FALSE, chunk.text, NoInput)

\* content_block_stop while a thinking block is open
OnThinkingStop(st) ==
    [Yield(st, "thinking", FALSE, TRUE, <<>>, NoInput)
        EXCEPT !.partialBlockType = "undefined"]

\* the body of for await (const chunk of messageStream): the first branch
\* that matches runs, a chunk no branch matches is skipped
OnChunk(st, chunk) ==
    CASE chunk.type = "content_block_start" /\ chunk.kind = "text" ->
            OnTextStart(st)
      [] chunk.type = "content_block_delta" /\ chunk.kind = "text_delta" ->
            OnTextDelta(st, chunk)
      [] chunk.type = "content_block_stop" /\ st.partialBlockType = "text" ->
            OnTextStop(st)
      [] chunk.type = "content_block_start" /\ chunk.kind = "tool_use" ->
            OnToolUseStart(st)
      [] chunk.type = "content_block_delta"
            /\ chunk.kind = "input_json_delta" ->
            OnToolUseDelta(st, chunk)
      [] chunk.type = "content_block_stop"
            /\ st.partialBlockType = "toolUse" ->
            OnToolUseStop(st)
      [] chunk.type = "content_block_start" /\ chunk.kind = "thinking" ->
            OnThinkingStart(st)
      [] chunk.type = "content_block_delta"
            /\ chunk.kind \in {"thinking_delta", "signature_delta"} ->
            OnThinkingDelta(st, chunk)
      [] chunk.type = "content_block_stop"
            /\ st.partialBlockType = "thinking" ->
            OnThinkingStop(st)
      [] OTHER -> st

\* messageStream delivers a chunk; a throw in the loop body leaves through
\* the catch block, which rethrows: the generator has failed
NormalizerChunk(chunk) ==
    /\ nzPc = "running"
    /\ Len(chunks) < MaxChunks
    /\ chunks' = Append(chunks, chunk)
    /\ LET st == OnChunk(NzCur, chunk)
       IN /\ nzPc' = IF st.failed THEN "failed" ELSE "running"
          /\ partialBlockType' = st.partialBlockType
          /\ partialToolUseBuffer' = st.partialToolUseBuffer
          /\ partialToolUseBlock' = st.partialToolUseBlock
          /\ partials' = st.partials
    /\ UNCHANGED <<mainVars, registryVars, clientVars, metadataVars, adapterVars, limiterVars, overlapVars, frameVars, wireVars>>

\* messageStream completes: the loop ends, finalMessage() resolves and the
\* generator returns the final response
NormalizerEnd ==
    /\ nzPc = "running"
    /\ nzPc' = "returned"
    /\ UNCHANGED <<mainVars, registryVars, clientVars, metadataVars, adapterVars, limiterVars, overlapVars, frameVars, wireVars, partialBlockType,
                   partialToolUseBuffer, partialToolUseBlock, chunks,
                   partials>>

\* a stream() call that has not read a chunk yet, next to an idle agent
InitNormalizer ==
    /\ config = [maxIterations |-> 1, provider |-> "free", kind |-> "adapter",
                 errorListener |-> TRUE, onToolCallThrows |-> FALSE]
    /\ AgentIdle
    /\ RegistryIdle
    /\ NormalizerIdle
    /\ ClientIdle
    /\ AdapterIdle
    /\ LimiterIdle
    /\ OverlapIdle
    /\ FrameIdle
    /\ MetadataIdle
    /\ WireIdle
    /\ wireConfig = NoWireConfig

NextNormalizer ==
    \/ \E chunk \in Chunks : NormalizerChunk(chunk)
    \/ NormalizerEnd

SpecNormalizer == InitNormalizer /\ [][NextNormalizer]_vars

\* ================================================================ AcpClient
\* One behaviour of SpecClient works on one AcpAdapter: its AcpServer and the
\* AcpClient of createLocalClient, joined by a transport.  The application
\* calls the client's methods, may send the server a raw initialize request
\* of its own, and may close the client; the transport delivers the server's
\* answers, may fail to send, and may emit responses nobody asked for; the
\* timers of the requests fire.

\* the methods behind listTools and complete; listPrompts, getPrompt and
\* callTool go through sendRequest in the same way
ClientMethods == {"tools/list", "completion/complete"}

\* ids a response emitted by the transport may carry
ResponseIds == 0..(MaxSent + 1)

\* this.pendingRequests.has(id)
PendingHas(p, id) == \E e \in p : e.id = id

\* this.pendingRequests.get(id): the request whose resolve, reject and timer
\* the entry holds
PendingGet(p, id) == (CHOOSE e \in p : e.id = id).req

\* this.pendingRequests.set(id, {resolve, reject, timeout})
PendingSet(p, id, i) == {e \in p : e.id # id} \cup {[id |-> id, req |-> i]}

\* this.pendingRequests.delete(id)
PendingDelete(p, id) == {e \in p : e.id # id}

\* resolve(...) or reject(...) of a request's promise: the first call settles
\* it, later calls do nothing.  by: the id of the response that settled it
SettlePromise(r, state, reason, code, by) ==
    IF r.state = "pending"
    THEN [r EXCEPT !.state = state, !.reason = reason, !.code = code,
                   !.by = by]
    ELSE r

\* clearTimeout(timeout)
clearTimeout(r) ==
    IF r.timer = "armed" THEN [r EXCEPT !.timer = "cleared"] ELSE r

\* the client's fields, as one record
ClientCur ==
    [nextId |-> nextId, pending |-> pendingRequests,
     initialized |-> clientInitialized, sent |-> sent, dropped |-> FALSE]

ClientAssign(c) ==
    /\ nextId' = c.nextId
    /\ pendingRequests' = c.pending
    /\ clientInitialized' = c.initialized
    /\ sent' = c.sent

\* AcpClient.sendRequest up to the return of the promise: take the id, arm
\* the timer, enter the pending map, hand the request to the transport
sendRequest(c, method) ==
    LET id == c.nextId
        i == Len(c.sent) + 1
    IN [c EXCEPT
          !.nextId = id + 1,
          !.pending = PendingSet(@, id, i),
          !.sent = Append(@, [id |-> id, method |-> method,
                              state |-> "pending", reason |-> "none",
                              code |-> 0, by |-> Undefined,
                              timer |-> "armed", wire |-> "queued"])]

\* handleResponse that settles the oldest pending request when the id of the
\* response is unknown
handleResponse_AnyPending(c, resp) ==
    IF c.pending = {} THEN [c EXCEPT !.dropped = TRUE]
    ELSE LET e == IF PendingHas(c.pending, resp.id)
                  THEN CHOOSE x \in c.pending : x.id = resp.id
                  ELSE CHOOSE x \in c.pending :
                          \A y \in c.pending : x.req <= y.req
             i == e.req
             r == IF resp.kind = "error"
                  THEN SettlePromise(clearTimeout(c.sent[i]), "rejected",
                                     "ACP Error", resp.code, resp.id)
                  ELSE SettlePromise(clearTimeout(c.sent[i]), "resolved",
                                     "response", 0, resp.id)
         IN [c EXCEPT
               !.pending = PendingDelete(@, e.id),
               !.sent[i] = r,
               !.initialized = @ \/ (r.method = "initialize"
                                        /\ r.state = "resolved")]

\* AcpClient.handleResponse, and for an initialize request the continuation
\* of AcpClient.initialize (this.initialized = true)
handleResponse(c, resp) ==
    IF ~PendingHas(c.pending, resp.id) THEN [c EXCEPT !.dropped = TRUE]
    ELSE LET i == PendingGet(c.pending, resp.id)
             r == IF resp.kind = "error"
                  THEN SettlePromise(clearTimeout(c.sent[i]), "rejected",
                                     "ACP Error", resp.code, resp.id)
                  ELSE SettlePromise(clearTimeout(c.sent[i]), "resolved",
                                     "response", 0, resp.id)
         IN [c EXCEPT
               !.pending = PendingDelete(@, resp.id),
               !.sent[i] = r,
               !.initialized = @ \/ (r.method = "initialize"
                                        /\ r.state = "resolved")]

\* the timer callback of sendRequest that leaves the entry in the map
timeoutCallback_KeepEntry(c, i) ==
    [c EXCEPT
       !.sent[i] = SettlePromise([@ EXCEPT !.timer = "fired"], "rejected",
                                 "timed out", 0, Undefined)]

\* the timer callback of sendRequest
timeoutCallback(c, i) ==
    [c EXCEPT
       !.pending = PendingDelete(@, c.sent[i].id),
       !.sent[i] = SettlePromise([@ EXCEPT !.timer = "fired"], "rejected",
                                 "timed out", 0, Undefined)]

\* .catch((error) => ...) of transport.send in sendRequest
sendFailed(c, i) ==
    [c EXCEPT
       !.pending = PendingDelete(@, c.sent[i].id),
       !.sent[i] = SettlePromise(clearTimeout([@ EXCEPT !.wire = "failed"]),
                                 "rejected", "send failed", 0, Undefined)]

\* close that rejects the pending requests and leaves their timers armed
close_KeepTimers(c) ==
    [c EXCEPT
       !.pending = {},
       !.sent = [i \in 1..Len(c.sent) |->
                   IF \E e \in c.pending : e.req = i
                   THEN SettlePromise(c.sent[i], "rejected",
                                      "Client closed", 0, Undefined)
                   ELSE c.sent[i]]]

\* AcpClient.close: clear the timer of every entry, reject it, empty the map
close(c) ==
    [c EXCEPT
       !.pending = {},
       !.sent = [i \in 1..Len(c.sent) |->
                   IF \E e \in c.pending : e.req = i
                   THEN SettlePromise(clearTimeout(c.sent[i]), "rejected",
                                      "Client closed", 0, Undefined)
                   ELSE c.sent[i]]]

\* client.initialize(params) up to its await
ClientInitialize ==
    /\ ~clientInitialized
    /\ Len(sent) < MaxSent
    /\ ClientAssign(sendRequest(ClientCur, "initialize"))
    /\ lastCall' = "other"
    /\ UNCHANGED <<mainVars, registryVars, normalizerVars, metadataVars, adapterVars, limiterVars, overlapVars, frameVars,
                   wireVars, rawResponse>>

\* client.listTools(), callTool(params), complete(params) up to the await
ClientRequest(method) ==
    /\ clientInitialized
    /\ Len(sent) < MaxSent
    /\ ClientAssign(sendRequest(ClientCur, method))
    /\ lastCall' = "other"
    /\ UNCHANGED <<mainVars, registryVars, normalizerVars, metadataVars, adapterVars, limiterVars, overlapVars, frameVars,
                   wireVars, rawResponse>>

\* the request the client's i-th sendRequest handed to the transport
RequestOf(r) ==
    [id |-> r.id, method |-> r.method, hasParams |-> TRUE,
     params |-> [protocolVersion |-> "1.0.0"]]

\* what the server answers a request of the client with.  refused: the
\* server answers a completion/complete with an error envelope
ServerResponse(req, init, refused) ==
    CASE req.method = "initialize" -> handleInitialize(req, init).response
      [] req.method = "completion/complete" /\ refused ->
            createErrorResponse(req.id, INTERNAL_ERROR)
      [] OTHER -> ResultResponse(req.id, <<>>)

\* InMemoryTransport.send, the setImmediate callback: the server handles the
\* request and the transport emits its response, which the client's listener
\* passes to handleResponse
ServerAnswer(i) ==
    /\ i \in 1..Len(sent)
    /\ sent[i].wire = "queued"
    /\ \E refused \in BOOLEAN :
          LET req == RequestOf(sent[i])
              resp == ServerResponse(req, initialized, refused)
              c == handleResponse(
                      [ClientCur EXCEPT !.sent[i].wire = "answered"], resp)
          IN /\ initialized' = IF req.method = "initialize"
                               THEN handleInitialize(req, initialized).initialized
                               ELSE initialized
             /\ initSuccesses' =
                   IF req.method = "initialize" /\ resp.kind = "result"
                   THEN initSuccesses + 1 ELSE initSuccesses
             /\ ClientAssign(c)
             /\ lastCall' = IF c.dropped THEN "dropped" ELSE "other"
    /\ UNCHANGED <<registryVars, normalizerVars, metadataVars, adapterVars, limiterVars, overlapVars, frameVars, wireVars,
                   config, mode, aborted, initialMessages, agentVars,
                   streamVars, toolVars, request, response, rawResponse>>

\* the transport emits a response the server did not just produce: a
\* duplicate, or one with an id of its own
StrayResponse(id, isError) ==
    /\ LET resp == IF isError THEN createErrorResponse(id, INTERNAL_ERROR)
                   ELSE ResultResponse(id, <<>>)
           c == handleResponse(ClientCur, resp)
       IN /\ ClientAssign(c)
          /\ lastCall' = IF c.dropped THEN "dropped" ELSE "other"
    /\ UNCHANGED <<mainVars, registryVars, normalizerVars, metadataVars, adapterVars, limiterVars, overlapVars, frameVars,
                   wireVars, rawResponse>>

\* the promise of transport.send rejects
TransportSendFails(i) ==
    /\ i \in 1..Len(sent)
    /\ sent[i].wire = "queued"
    /\ ClientAssign(sendFailed(ClientCur, i))
    /\ lastCall' = "other"
    /\ UNCHANGED <<mainVars, registryVars, normalizerVars, metadataVars, adapterVars, limiterVars, overlapVars, frameVars,
                   wireVars, rawResponse>>

\* the timer of the i-th request fires
ClientTimeout(i) ==
    /\ i \in 1..Len(sent)
    /\ sent[i].timer = "armed"
    /\ ClientAssign(timeoutCallback(ClientCur, i))
    /\ lastCall' = "other"
    /\ UNCHANGED <<mainVars, registryVars, normalizerVars, metadataVars, adapterVars, limiterVars, overlapVars, frameVars,
                   wireVars, rawResponse>>

\* client.close() (InMemoryTransport.close does nothing)
ClientClose ==
    /\ ClientAssign(close(ClientCur))
    /\ lastCall' = "close"
    /\ UNCHANGED <<mainVars, registryVars, normalizerVars, metadataVars, adapterVars, limiterVars, overlapVars, frameVars,
                   wireVars, rawResponse>>

\* acpExample: server.handleRequest({id: 1, method: "initialize", ...})
\* called by the application itself
RawInitialize ==
    /\ rawResponse = None
    /\ LET req == [id |-> 1, method |-> "initialize", hasParams |-> TRUE,
                   params |-> [protocolVersion |-> "1.0.0"]]
           init == handleInitialize(req, initialized)
       IN /\ rawResponse' = init.response
          /\ initialized' = init.initialized
          /\ initSuccesses' = IF init.response.kind = "result"
                              THEN initSuccesses + 1 ELSE initSuccesses
    /\ lastCall' = "other"
    /\ UNCHANGED <<registryVars, normalizerVars, metadataVars, adapterVars, limiterVars, overlapVars, frameVars, wireVars,
                   config, mode, aborted, initialMessages, agentVars,
                   streamVars, toolVars, request, response, nextId,
                   pendingRequests, clientInitialized, sent>>

\* a fresh adapter: server and client next to an idle agent
InitClient ==
    /\ config = [maxIterations |-> 1, provider |-> "free", kind |-> "stub",
                 errorListener |-> TRUE, onToolCallThrows |-> FALSE]
    /\ AgentIdle
    /\ RegistryIdle
    /\ NormalizerIdle
    /\ ClientIdle
    /\ AdapterIdle
    /\ LimiterIdle
    /\ OverlapIdle
    /\ FrameIdle
    /\ MetadataIdle
    /\ WireIdle
    /\ wireConfig = NoWireConfig

NextClient ==
    \/ ClientInitialize
    \/ \E method \in ClientMethods : ClientRequest(method)
    \/ \E i \in 1..MaxSent : ServerAnswer(i)
    \/ \E id \in ResponseIds, isError \in BOOLEAN : StrayResponse(id, isError)
    \/ \E i \in 1..MaxSent : TransportSendFails(i)
    \/ \E i \in 1..MaxSent : ClientTimeout(i)
    \/ ClientClose
    \/ RawInitialize

\* a timer that is armed fires unless it is cleared first
SpecClient ==
    InitClient /\ [][NextClient]_vars
               /\ \A i \in 1..MaxSent : WF_vars(ClientTimeout(i))

\* ======================================================== execution metadata
\* One behaviour of SpecMetadata calls Agent.execute twice on one Agent, one
\* call after the other or overlapping.  The application passes either no
\* metadata or the one metadata object it holds, which may carry a Map under
\* "memory" for the memory tool.  Tool handlers write to the metadata of
\* their ToolContext; the wait for a handler may time out, and the handler
\* then completes later.

\* keys a tool may write
Keys == {"a", "b"}

\* what ToolContext.metadata of the e-th execution shows, and result.metadata
\* too, which is the same object: its own entries and the entries of the Map
\* under "memory"
Visible(e) ==
    executions[e].keys \cup
        (IF executions[e].memory = Undefined THEN {}
         ELSE maps[executions[e].memory])

\* agent.execute(options): const executionMetadata = { ...metadata }, a copy
\* of the entries, not of the objects they refer to
MetadataExecute(e, passed) ==
    /\ executions[e].state = "idle"
    /\ executions' = [executions EXCEPT
          ![e].state = "running",
          ![e].memory = IF passed THEN callerMetadata.memory ELSE Undefined]
    /\ UNCHANGED <<mainVars, registryVars, normalizerVars, clientVars,
                   wireVars, adapterVars, limiterVars, overlapVars, frameVars, callerMetadata, maps>>

\* memoryTool.handler, action "store": take context.metadata.memory or make
\* a Map, set the key in it, write it back
MemoryStore(e, key) ==
    /\ executions[e].state = "running"
    /\ LET memory == IF executions[e].memory # Undefined
                     THEN executions[e].memory ELSE e
       IN /\ maps' = [maps EXCEPT ![memory] = @ \cup {key}]
          /\ executions' = [executions EXCEPT
                ![e].memory = memory,
                ![e].stored = @ \cup {key}]
    /\ UNCHANGED <<mainVars, registryVars, normalizerVars, clientVars,
                   wireVars, adapterVars, limiterVars, overlapVars, frameVars, callerMetadata>>

\* a handler sets context.metadata[key] before its call settles
HandlerWrites(e, key) ==
    /\ executions[e].state = "running"
    /\ executions' = [executions EXCEPT
          ![e].keys = @ \cup {key},
          ![e].stored = @ \cup {key}]
    /\ UNCHANGED <<mainVars, registryVars, normalizerVars, clientVars,
                   wireVars, adapterVars, limiterVars, overlapVars, frameVars, callerMetadata, maps>>

\* ToolRegistry.execute: the timer wins the race, the call resolves with a
\* failure and the loop goes on; the handler is still running
ToolTimesOut(e) ==
    /\ executions[e].state = "running"
    /\ ~executions[e].late
    /\ executions' = [executions EXCEPT ![e].late = TRUE]
    /\ UNCHANGED <<mainVars, registryVars, normalizerVars, clientVars,
                   wireVars, adapterVars, limiterVars, overlapVars, frameVars, callerMetadata, maps>>

\* return { messages, iterations, metadata: executionMetadata }
ExecutionReturns(e) ==
    /\ executions[e].state = "running"
    /\ executions' = [executions EXCEPT
          ![e].state = "returned",
          ![e].result = [kind |-> "result", metadata |-> e]]
    /\ UNCHANGED <<mainVars, registryVars, normalizerVars, clientVars,
                   wireVars, adapterVars, limiterVars, overlapVars, frameVars, callerMetadata, maps>>

\* the handler whose wait timed out completes and sets context.metadata[key]
LateHandlerWrites(e, key) ==
    /\ executions[e].late
    /\ executions' = [executions EXCEPT
          ![e].late = FALSE,
          ![e].keys = @ \cup {key},
          ![e].stored = @ \cup {key}]
    /\ UNCHANGED <<mainVars, registryVars, normalizerVars, clientVars,
                   wireVars, adapterVars, limiterVars, overlapVars, frameVars, callerMetadata, maps>>

\* an idle agent; the application's metadata object is empty or holds a Map
InitMetadata ==
    /\ config = [maxIterations |-> 1, provider |-> "free", kind |-> "stub",
                 errorListener |-> TRUE, onToolCallThrows |-> FALSE]
    /\ AgentIdle
    /\ RegistryIdle
    /\ NormalizerIdle
    /\ ClientIdle
    /\ AdapterIdle
    /\ LimiterIdle
    /\ OverlapIdle
    /\ FrameIdle
    /\ WireIdle
    /\ wireConfig = NoWireConfig
    /\ callerMetadata \in {[memory |-> Undefined], [memory |-> 0]}
    /\ maps = [m \in MapIds |-> {}]
    /\ executions = [e \in Executions |-> IdleExecution]

NextMetadata ==
    \/ \E e \in Executions, passed \in BOOLEAN : MetadataExecute(e, passed)
    \/ \E e \in Executions, key \in Keys : MemoryStore(e, key)
    \/ \E e \in Executions, key \in Keys : HandlerWrites(e, key)
    \/ \E e \in Executions : ToolTimesOut(e)
    \/ \E e \in Executions : ExecutionReturns(e)
    \/ \E e \in Executions, key \in Keys : LateHandlerWrites(e, key)

SpecMetadata == InitMetadata /\ [][NextMetadata]_vars

\* ============================== completion/complete to the Anthropic backend
\* One behaviour of SpecWire sends one completion/complete request with text
\* messages to an AcpServer whose agent uses LlmProviderAdapter in front of
\* AnthropicProvider, and follows the texts: through convertAcpMessages into
\* the execution, through the adapter and convertMessages into the backend
\* request, and from the backend's answer (one text block, or a failure)
\* back through mapContent and convertToAcpContent into the response.

\* texts a message, a system prompt or an answer may carry
Texts == {"", "a", "b"}

\* undefined where a string is expected (an absent systemPrompt)
NoText == "<undefined>"

WireConfigs ==
    [systemPrompt : {NoText, "", "sys"},
     maxIterations : {0, 1},
     errorListener : BOOLEAN]

\* params.messages of the requests explored: text messages only
WireRequests ==
    UNION {[1..n -> {[role |-> r, content |-> [type |-> "text", text |-> t]] :
                        r \in {"user", "assistant"}, t \in Texts}] :
           n \in 1..MaxMessages}

\* MessageManager.createSystemMessage: the content is the string itself
createSystemMessage(content) == [role |-> "system", content |-> content]

\* new MessageManager(initialMessages) and, if (this.config.systemPrompt),
\* the system message added after them
ExecuteMessages(cfg, initial) ==
    IF cfg.systemPrompt \notin {NoText, ""}
    THEN Append(initial, createSystemMessage(cfg.systemPrompt))
    ELSE initial

\* the LLMRequest execute builds: messages, tools, toolChoice, metadata, and
\* no systemPrompt
LLMRequestOf(msgs) == [messages |-> msgs, systemPrompt |-> NoText]

\* LlmProviderAdapter.generateResponse: the options it passes to generate
AdapterOptions(req) == [systemPrompt |-> req.systemPrompt]

\* provider-anthropic convertContentBlock, for the blocks that occur here
convertContentBlock(block) ==
    CASE block.type = "text" -> [type |-> "text", text |-> block.text]
      [] block.type = "toolUse" ->
            [type |-> "tool_use", id |-> block.id, name |-> block.name,
             input |-> block.input]
      [] OTHER -> block

\* provider-anthropic convertMessages: drop the system messages, convert the
\* blocks, drop the messages without content
convertMessages(msgs) ==
    LET kept == SelectSeq(msgs, LAMBDA m : m.role # "system")
        mapped == [i \in 1..Len(kept) |->
                      [role |-> kept[i].role,
                       content |-> [j \in 1..Len(kept[i].content) |->
                                       convertContentBlock(kept[i].content[j])]]]
    IN SelectSeq(mapped, LAMBDA m : Len(m.content) > 0)

\* AnthropicProvider.generate: requestOptions of client.messages.create
RequestOptions(msgs, options) ==
    [messages |-> convertMessages(msgs), system |-> options.systemPrompt]

\* handleComplete after agent.execute returned `result`
CompleteResponse(msgs) ==
    LET lastMessage == LastAssistant(msgs)
    IN IF lastMessage = None THEN createErrorResponse(1, INTERNAL_ERROR)
       ELSE ResultResponse(1, <<convertToAcpContent(lastMessage)>>)

\* handleRequest({id: 1, method: "completion/complete", params: {messages}})
\* up to the await of client.messages.create; with a budget of 0 the loop
\* body never runs and the request is answered at once
WireComplete(msgs) ==
    /\ wirePc = "idle"
    /\ wireRequest' = msgs
    /\ LET all == ExecuteMessages(wireConfig, convertAcpMessages(msgs))
       IN /\ wireMessages' = all
          /\ IF wireConfig.maxIterations > 0
             THEN /\ backendRequest' =
                        RequestOptions(all, AdapterOptions(LLMRequestOf(all)))
                  /\ wirePc' = "generating"
                  /\ wireResponse' = Pending
             ELSE /\ backendRequest' = None
                  /\ wirePc' = "done"
                  /\ wireResponse' = CompleteResponse(all)
    /\ UNCHANGED <<mainVars, registryVars, normalizerVars, clientVars,
                   metadataVars, adapterVars, limiterVars, overlapVars, frameVars, wireConfig, backendResponse>>

\* client.messages.create resolves with one text block: mapContent, the
\* adapter's assistant message, addMessage, no tool call, break, return, and
\* handleComplete's answer
BackendAnswers(text) ==
    /\ wirePc = "generating"
    /\ LET content == <<[type |-> "text", text |-> text]>>
           message == [role |-> "assistant", content |-> mapContent(content)]
       IN /\ backendResponse' = [kind |-> "content", content |-> content]
          /\ wireMessages' = Append(wireMessages, message)
          /\ wireResponse' = CompleteResponse(Append(wireMessages, message))
    /\ wirePc' = "done"
    /\ UNCHANGED <<mainVars, registryVars, normalizerVars, clientVars,
                   metadataVars, adapterVars, limiterVars, overlapVars, frameVars, wireConfig, wireRequest, backendRequest>>

\* client.messages.create rejects: generate rethrows, execute catches and
\* emits "error", which throws when nobody listens
BackendFails ==
    /\ wirePc = "generating"
    /\ backendResponse' = [kind |-> "failed", content |-> <<>>]
    /\ wireResponse' = IF wireConfig.errorListener
                       THEN CompleteResponse(wireMessages)
                       ELSE Rejected
    /\ wirePc' = "done"
    /\ UNCHANGED <<mainVars, registryVars, normalizerVars, clientVars,
                   metadataVars, adapterVars, limiterVars, overlapVars, frameVars, wireConfig, wireRequest, wireMessages,
                   backendRequest>>

\* a server whose agent is configured in any of the ways explored
InitWire ==
    /\ config = [maxIterations |-> 1, provider |-> "free", kind |-> "adapter",
                 errorListener |-> TRUE, onToolCallThrows |-> FALSE]
    /\ AgentIdle
    /\ RegistryIdle
    /\ NormalizerIdle
    /\ ClientIdle
    /\ AdapterIdle
    /\ LimiterIdle
    /\ OverlapIdle
    /\ FrameIdle
    /\ MetadataIdle
    /\ WireIdle
    /\ wireConfig \in WireConfigs

NextWire ==
    \/ \E msgs \in WireRequests : WireComplete(msgs)
    \/ \E text \in Texts : BackendAnswers(text)
    \/ BackendFails

SpecWire == InitWire /\ [][NextWire]_vars

\* ======================================================= AcpAdapter.complete
\* One behaviour of SpecAdapter makes two calls of AcpAdapter.complete on a
\* fresh adapter, the second at any time after the first; the in-memory
\* transport delivers the server's answers, and the timers of the requests
\* may fire.

\* AcpAdapter.complete up to its first await: createLocalClient returns the
\* one client of the adapter; if (!client["initialized"]) the call awaits
\* client.initialize, else client.complete
AdapterComplete(k) ==
    /\ adapterCalls[k].pc = "idle"
    /\ LET method == IF ~clientInitialized THEN "initialize"
                     ELSE "completion/complete"
       IN /\ ClientAssign(sendRequest(ClientCur, method))
          /\ adapterCalls' = [adapterCalls EXCEPT
                ![k].pc = IF ~clientInitialized THEN "initializing"
                          ELSE "completing",
                ![k].req = Len(sent) + 1]
    /\ lastCall' = "other"
    /\ UNCHANGED <<mainVars, registryVars, normalizerVars, metadataVars,
                   wireVars, limiterVars, overlapVars, frameVars,
                   rawResponse>>

\* the await of client.initialize settles: a rejection leaves complete; else
\* client.complete runs ensureInitialized and sendRequest
AdapterInitialized(k) ==
    /\ adapterCalls[k].pc = "initializing"
    /\ sent[adapterCalls[k].req].state # "pending"
    /\ LET r == sent[adapterCalls[k].req]
       IN IF r.state = "rejected"
          THEN /\ adapterCalls' = [adapterCalls EXCEPT
                     ![k].pc = "failed",
                     ![k].reason = r.reason,
                     ![k].code = r.code]
               /\ UNCHANGED <<nextId, pendingRequests, clientInitialized,
                              sent>>
          ELSE IF ~clientInitialized
          THEN /\ adapterCalls' = [adapterCalls EXCEPT
                     ![k].pc = "failed",
                     ![k].reason = "Client not initialized"]
               /\ UNCHANGED <<nextId, pendingRequests, clientInitialized,
                              sent>>
          ELSE /\ ClientAssign(sendRequest(ClientCur, "completion/complete"))
               /\ adapterCalls' = [adapterCalls EXCEPT
                     ![k].pc = "completing",
                     ![k].req = Len(sent) + 1]
    /\ lastCall' = "other"
    /\ UNCHANGED <<mainVars, registryVars, normalizerVars, metadataVars,
                   wireVars, limiterVars, overlapVars, frameVars,
                   rawResponse>>

\* the await of client.complete settles and AcpAdapter.complete with it
AdapterCompleted(k) ==
    /\ adapterCalls[k].pc = "completing"
    /\ sent[adapterCalls[k].req].state # "pending"
    /\ LET r == sent[adapterCalls[k].req]
       IN adapterCalls' = [adapterCalls EXCEPT
             ![k].pc = IF r.state = "resolved" THEN "resolved" ELSE "failed",
             ![k].reason = r.reason,
             ![k].code = r.code]
    /\ lastCall' = "other"
    /\ UNCHANGED <<mainVars, registryVars, normalizerVars, metadataVars,
                   wireVars, limiterVars, overlapVars, frameVars,
                   clientVars>>

\* requests two calls of AcpAdapter.complete can send
AdapterRequests == 1..4

NextAdapter ==
    \/ \E k \in AdapterCallIds : AdapterComplete(k)
    \/ \E k \in AdapterCallIds : AdapterInitialized(k)
    \/ \E k \in AdapterCallIds : AdapterCompleted(k)
    \/ \E i \in AdapterRequests : ServerAnswer(i)
    \/ \E i \in AdapterRequests : ClientTimeout(i)

SpecAdapter == InitClient /\ [][NextAdapter]_vars

\* ================================================================ RateLimiter
\* One behaviour of SpecLimiter has three callers share one RateLimiter.  A
\* caller calls acquire and, once acquire has returned, release; or it calls
\* run(fn), which does both around fn.  A caller that has released may
\* acquire again.  The continuation of an await runs as a step of its own,
\* after the code that resolved the promise has run on.

\* this.running++ and the wait of minDelay that may follow it
Enter(c) ==
    /\ running' = running + 1
    /\ callers' = [callers EXCEPT
          ![c].pc = IF limiterConfig.minDelay > 0 THEN "delaying"
                    ELSE "holding"]

\* RateLimiter.acquire up to its first await (its return, if it has none),
\* called directly or by run
Acquire(c, viaRun) ==
    /\ callers[c].pc = "idle"
    /\ IF running >= limiterConfig.maxConcurrent
       THEN /\ queue' = Append(queue, c)
            /\ callers' = [callers EXCEPT ![c] = [pc |-> "waiting",
                                                  run |-> viaRun]]
            /\ UNCHANGED running
       ELSE /\ running' = running + 1
            /\ callers' = [callers EXCEPT
                  ![c] = [pc |-> IF limiterConfig.minDelay > 0
                                 THEN "delaying" ELSE "holding",
                          run |-> viaRun]]
            /\ UNCHANGED queue
    /\ UNCHANGED <<mainVars, registryVars, normalizerVars, clientVars,
                   metadataVars, wireVars, adapterVars, overlapVars,
                   frameVars, limiterConfig>>

\* acquire after `await new Promise((resolve) => this.queue.push(resolve))`
\* of a caller whose resolve function release has called
Resume(c) ==
    /\ callers[c].pc = "woken"
    /\ Enter(c)
    /\ UNCHANGED <<mainVars, registryVars, normalizerVars, clientVars,
                   metadataVars, wireVars, adapterVars, overlapVars,
                   frameVars, limiterConfig, queue>>

\* the setTimeout of minDelay fires and acquire returns
DelayEnds(c) ==
    /\ callers[c].pc = "delaying"
    /\ callers' = [callers EXCEPT ![c].pc = "holding"]
    /\ UNCHANGED <<mainVars, registryVars, normalizerVars, clientVars,
                   metadataVars, wireVars, adapterVars, overlapVars,
                   frameVars, limiterConfig, running, queue>>

\* RateLimiter.release
release(c) ==
    /\ running' = running - 1
    /\ queue' = IF queue = <<>> THEN queue ELSE Tail(queue)
    /\ callers' = [x \in Callers |->
          IF x = c THEN [pc |-> "idle", run |-> FALSE]
          ELSE IF queue # <<>> /\ x = Head(queue)
               THEN [callers[x] EXCEPT !.pc = "woken"]
               ELSE callers[x]]

\* a caller of acquire calls release
Release(c) ==
    /\ callers[c].pc = "holding"
    /\ ~callers[c].run
    /\ release(c)
    /\ UNCHANGED <<mainVars, registryVars, normalizerVars, clientVars,
                   metadataVars, wireVars, adapterVars, overlapVars,
                   frameVars, limiterConfig>>

\* RateLimiter.run: fn settles and the finally block calls release
RunSettles(c) ==
    /\ callers[c].pc = "holding"
    /\ callers[c].run
    /\ release(c)
    /\ UNCHANGED <<mainVars, registryVars, normalizerVars, clientVars,
                   metadataVars, wireVars, adapterVars, overlapVars,
                   frameVars, limiterConfig>>

\* new RateLimiter(maxConcurrent, minDelay) next to an idle agent
InitLimiter ==
    /\ config = [maxIterations |-> 1, provider |-> "free", kind |-> "stub",
                 errorListener |-> TRUE, onToolCallThrows |-> FALSE]
    /\ AgentIdle
    /\ RegistryIdle
    /\ NormalizerIdle
    /\ ClientIdle
    /\ MetadataIdle
    /\ WireIdle
    /\ wireConfig = NoWireConfig
    /\ AdapterIdle
    /\ OverlapIdle
    /\ FrameIdle
    /\ limiterConfig \in [maxConcurrent : 1..MaxLimit, minDelay : {0, 1}]
    /\ running = 0
    /\ queue = <<>>
    /\ callers = [c \in Callers |-> [pc |-> "idle", run |-> FALSE]]

NextLimiter ==
    \/ \E c \in Callers, viaRun \in BOOLEAN : Acquire(c, viaRun)
    \/ \E c \in Callers : Resume(c)
    \/ \E c \in Callers : DelayEnds(c)
    \/ \E c \in Callers : Release(c)
    \/ \E c \in Callers : RunSettles(c)

SpecLimiter == InitLimiter /\ [][NextLimiter]_vars

\* ===================================================== overlapping executions
\* One behaviour of SpecOverlap starts up to two calls on one Agent: first a
\* stream, then, at any time after it, a second stream or an execute.  Every
\* execution emits its events on the Agent, which is one EventEmitter; a
\* stream call collects what the handlers it registered receive.  The
\* consumer of a stream may stop iterating at any event.  The application may
\* have an "error" listener of its own (owner 0).

\* the events an execution emits before it ends, in order
ProgressTypes == <<"message", "toolCall", "toolResult">>

\* message, toolCall and toolResult events emitted on the agent so far
Emitted == runs[1].step + runs[2].step

\* this.emit(type, ...) by the execution r: every handler registered for the
\* type runs, and the handlers of a stream call push onto its events
Deliver(rs, r, type) ==
    [s \in RunIds |->
        IF s \in listeners[type]
        THEN [rs[s] EXCEPT !.events = Append(@, [run |-> r, type |-> type])]
        ELSE rs[s]]

\* this.on(type, handler) for the four handlers of the stream call r
registerHandlers(ls, r) == [t \in StreamTypes |-> ls[t] \cup {r}]

\* the finally block of stream with the error handler left registered
removeHandlers_KeepError(ls, r) ==
    [t \in StreamTypes |-> IF t = "error" THEN ls[t] ELSE ls[t] \ {r}]

\* the finally block of stream: this.off(type, handler) for the four handlers
removeHandlers(ls, r) == [t \in StreamTypes |-> ls[t] \ {r}]

\* agent.execute(options) up to its first await
OverlapExecute(r) ==
    /\ runs[r].kind = "none"
    /\ r > 1
    /\ runs[r - 1].kind # "none"
    /\ runs' = [runs EXCEPT ![r].kind = "execute", ![r].pc = "running",
                            ![r].before = listeners]
    /\ UNCHANGED <<mainVars, registryVars, normalizerVars, clientVars,
                   metadataVars, wireVars, adapterVars, limiterVars,
                   frameVars, listeners>>

\* the first next() of agent.stream(options): register the handlers, call
\* execute, find no event to yield, await the race
OverlapStream(r) ==
    /\ runs[r].kind = "none"
    /\ r > 1 => runs[r - 1].kind # "none"
    /\ listeners' = registerHandlers(listeners, r)
    /\ runs' = [runs EXCEPT ![r].kind = "stream", ![r].pc = "running",
                            ![r].streamPc = "waiting",
                            ![r].before = listeners]
    /\ UNCHANGED <<mainVars, registryVars, normalizerVars, clientVars,
                   metadataVars, wireVars, adapterVars, limiterVars,
                   frameVars>>

\* the execution r emits its next message, toolCall or toolResult event
ExecEmits(r) ==
    /\ runs[r].pc = "running"
    /\ runs[r].step < Len(ProgressTypes)
    /\ Emitted < MaxEmitted
    /\ runs' = Deliver([runs EXCEPT ![r].step = @ + 1], r,
                       ProgressTypes[runs[r].step + 1])
    /\ UNCHANGED <<mainVars, registryVars, normalizerVars, clientVars,
                   metadataVars, wireVars, adapterVars, limiterVars,
                   frameVars, listeners>>

\* the execution r leaves its loop after a message without tool calls, or
\* with its budget used up after the tool results, and returns its result
ExecCompletes(r) ==
    /\ runs[r].pc = "running"
    /\ runs[r].step \in {1, 3}
    /\ runs' = [runs EXCEPT ![r].pc = "done"]
    /\ UNCHANGED <<mainVars, registryVars, normalizerVars, clientVars,
                   metadataVars, wireVars, adapterVars, limiterVars,
                   frameVars, listeners>>

\* generateResponse of the execution r rejects.  The catch block:
\* emit("error") throws when nobody listens for "error"; await
\* this.config.onError(error) may throw
ExecFails(r, onErrorThrows) ==
    /\ runs[r].pc = "running"
    /\ runs[r].step \in {0, 3}
    /\ IF listeners["error"] = {}
       THEN runs' = [runs EXCEPT ![r].pc = "rejected"]
       ELSE runs' = Deliver([runs EXCEPT
                                ![r].pc = IF onErrorThrows THEN "rejected"
                                          ELSE "done"], r, "error")
    /\ UNCHANGED <<mainVars, registryVars, normalizerVars, clientVars,
                   metadataVars, wireVars, adapterVars, limiterVars,
                   frameVars, listeners>>

\* yield events[lastYieldedIndex++]
YieldNext(run) ==
    [run EXCEPT !.yielded = Append(@, run.events[run.lastYieldedIndex + 1]),
                !.lastYieldedIndex = @ + 1,
                !.streamPc = "atYield"]

\* the generator wakes from a timer, finds events it has not yielded and
\* yields the first of them
StreamPolls(r) ==
    /\ runs[r].streamPc = "waiting"
    /\ runs[r].lastYieldedIndex < Len(runs[r].events)
    /\ runs' = [runs EXCEPT ![r] = YieldNext(@)]
    /\ UNCHANGED <<mainVars, registryVars, normalizerVars, clientVars,
                   metadataVars, wireVars, adapterVars, limiterVars,
                   frameVars, listeners>>

\* the consumer calls next() after an event: the inner while loop yields the
\* next event, or the generator goes on to await the race
StreamNext(r) ==
    /\ runs[r].streamPc = "atYield"
    /\ runs' = [runs EXCEPT
          ![r] = IF @.lastYieldedIndex < Len(@.events) THEN YieldNext(@)
                 ELSE [@ EXCEPT !.streamPc = "waiting"]]
    /\ UNCHANGED <<mainVars, registryVars, normalizerVars, clientVars,
                   metadataVars, wireVars, adapterVars, limiterVars,
                   frameVars, listeners>>

\* the race is won by the execution, which resolved: yield complete
StreamCompletes(r) ==
    /\ runs[r].streamPc = "waiting"
    /\ runs[r].pc = "done"
    /\ runs' = [runs EXCEPT
          ![r].yielded = Append(@, [run |-> r, type |-> "complete"]),
          ![r].streamPc = "atComplete"]
    /\ UNCHANGED <<mainVars, registryVars, normalizerVars, clientVars,
                   metadataVars, wireVars, adapterVars, limiterVars,
                   frameVars, listeners>>

\* the consumer calls next() after complete: return result, finally
StreamReturns(r) ==
    /\ runs[r].streamPc = "atComplete"
    /\ runs' = [runs EXCEPT ![r].streamPc = "finished",
                            ![r].ended = "return"]
    /\ listeners' = removeHandlers(listeners, r)
    /\ UNCHANGED <<mainVars, registryVars, normalizerVars, clientVars,
                   metadataVars, wireVars, adapterVars, limiterVars,
                   frameVars>>

\* the consumer ends the iteration at an event (break in for await, or
\* return() on the generator): the generator leaves through finally
StreamEndsEarly(r) ==
    /\ runs[r].streamPc \in {"atYield", "atComplete"}
    /\ runs' = [runs EXCEPT ![r].streamPc = "finished",
                            ![r].ended = "early"]
    /\ listeners' = removeHandlers(listeners, r)
    /\ UNCHANGED <<mainVars, registryVars, normalizerVars, clientVars,
                   metadataVars, wireVars, adapterVars, limiterVars,
                   frameVars>>

\* the race rejects because the execution rejected: the exception leaves the
\* generator through finally
StreamThrows(r) ==
    /\ runs[r].streamPc = "waiting"
    /\ runs[r].pc = "rejected"
    /\ runs' = [runs EXCEPT ![r].streamPc = "finished",
                            ![r].ended = "throw"]
    /\ listeners' = removeHandlers(listeners, r)
    /\ UNCHANGED <<mainVars, registryVars, normalizerVars, clientVars,
                   metadataVars, wireVars, adapterVars, limiterVars,
                   frameVars>>

\* an Agent on which nothing runs; the application listens for "error" or
\* does not
InitOverlap ==
    /\ config = [maxIterations |-> 1, provider |-> "free", kind |-> "stub",
                 errorListener |-> TRUE, onToolCallThrows |-> FALSE]
    /\ AgentIdle
    /\ RegistryIdle
    /\ NormalizerIdle
    /\ ClientIdle
    /\ MetadataIdle
    /\ WireIdle
    /\ wireConfig = NoWireConfig
    /\ AdapterIdle
    /\ LimiterIdle
    /\ FrameIdle
    /\ \E own \in {{}, {0}} :
          listeners = [t \in StreamTypes |-> IF t = "error" THEN own ELSE {}]
    /\ runs = [r \in RunIds |-> IdleRun]

NextOverlap ==
    \/ \E r \in RunIds : OverlapExecute(r)
    \/ \E r \in RunIds : OverlapStream(r)
    \/ \E r \in RunIds : ExecEmits(r)
    \/ \E r \in RunIds : ExecCompletes(r)
    \/ \E r \in RunIds, onErrorThrows \in BOOLEAN : ExecFails(r, onErrorThrows)
    \/ \E r \in RunIds : StreamPolls(r)
    \/ \E r \in RunIds : StreamNext(r)
    \/ \E r \in RunIds : StreamCompletes(r)
    \/ \E r \in RunIds : StreamReturns(r)
    \/ \E r \in RunIds : StreamEndsEarly(r)
    \/ \E r \in RunIds : StreamThrows(r)

SpecOverlap == InitOverlap /\ [][NextOverlap]_vars

\* ==================================================== the arguments of execute
\* One behaviour of SpecFrame follows one Agent.execute call whose caller
\* passes an initialMessages array and a metadata object of its own and
\* keeps both.  Arrays and objects live on a heap and are held by reference,
\* so that a write through one reference shows through every other one.

FrameMessage(role, text) == [role |-> role, content |-> text]

\* what the caller's initialMessages array may hold
FrameConversations ==
    {<<>>, <<FrameMessage("user", "u1")>>,
     <<FrameMessage("user", "u1"), FrameMessage("assistant", "a1")>>}

\* new MessageManager(initialMessages) that keeps the caller's array
MessageManagerNew_KeepsReference(as, initial) ==
    [arrays |-> as, ref |-> initial]

\* new MessageManager(initialMessages): this.messages = [...initialMessages],
\* a new array (array 1) with the same elements
MessageManagerNew(as, initial) ==
    [arrays |-> [as EXCEPT ![1] = as[initial]], ref |-> 1]

\* { ...metadata }: a new object (object 1) with the same own entries
spreadCopy(os, metadata) ==
    [objects |-> [os EXCEPT ![1] = os[metadata]], ref |-> 1]

\* MessageManager.addMessage: this.messages.push(message)
addMessage(as, ref, message) == [as EXCEPT ![ref] = Append(@, message)]

\* MessageManager.getMessages: [...this.messages], the elements as a value
getMessages(as, ref) == as[ref]

\* agent.execute({initialMessages, metadata}) with the caller's array 0 and
\* object 0, up to the loop
FrameExecute(hasSystemPrompt) ==
    /\ frame.pc = "idle"
    /\ LET messageManager == MessageManagerNew(arrays, 0)
           executionMetadata == spreadCopy(objects, 0)
       IN /\ arrays' = IF hasSystemPrompt
                       THEN addMessage(messageManager.arrays,
                                       messageManager.ref,
                                       FrameMessage("system", "sys"))
                       ELSE messageManager.arrays
          /\ objects' = executionMetadata.objects
          /\ frame' = [frame EXCEPT
                !.pc = "running",
                !.messages = messageManager.ref,
                !.metadata = executionMetadata.ref,
                !.before = [messages |-> arrays[0], metadata |-> objects[0]]]
    /\ UNCHANGED <<mainVars, registryVars, normalizerVars, clientVars,
                   metadataVars, wireVars, adapterVars, limiterVars,
                   overlapVars>>

\* one iteration of the loop: the provider's message is added and, when it
\* asks for tools, the message with their results
FrameIteration(hasTools) ==
    /\ frame.pc = "running"
    /\ frame.iterations < MaxIter
    /\ LET withAnswer == addMessage(arrays, frame.messages,
                                    FrameMessage("assistant", "answer"))
       IN arrays' = IF hasTools
                    THEN addMessage(withAnswer, frame.messages,
                                    FrameMessage("user", "results"))
                    ELSE withAnswer
    /\ frame' = [frame EXCEPT !.iterations = @ + 1]
    /\ UNCHANGED <<mainVars, registryVars, normalizerVars, clientVars,
                   metadataVars, wireVars, adapterVars, limiterVars,
                   overlapVars, objects>>

\* a tool handler assigns context.metadata[key] (the memory tool:
\* context.metadata.memory = memory)
FrameToolWrites(key) ==
    /\ frame.pc = "running"
    /\ frame.iterations > 0
    /\ objects' = [objects EXCEPT ![frame.metadata][key] = 1]
    /\ UNCHANGED <<mainVars, registryVars, normalizerVars, clientVars,
                   metadataVars, wireVars, adapterVars, limiterVars,
                   overlapVars, arrays, frame>>

\* execute returns {messages: getMessages(), iterations, metadata:
\* executionMetadata}, after the loop or from the catch block
FrameReturns(withError) ==
    /\ frame.pc = "running"
    /\ frame' = [frame EXCEPT
          !.pc = "returned",
          !.result = [kind |-> "result",
                      messages |-> getMessages(arrays, frame.messages),
                      iterations |-> frame.iterations,
                      metadata |-> frame.metadata,
                      error |-> withError]]
    /\ UNCHANGED <<mainVars, registryVars, normalizerVars, clientVars,
                   metadataVars, wireVars, adapterVars, limiterVars,
                   overlapVars, arrays, objects>>

\* the caller holds an array of messages and a metadata object
InitFrame ==
    /\ config = [maxIterations |-> 1, provider |-> "free", kind |-> "stub",
                 errorListener |-> TRUE, onToolCallThrows |-> FALSE]
    /\ AgentIdle
    /\ RegistryIdle
    /\ NormalizerIdle
    /\ ClientIdle
    /\ MetadataIdle
    /\ WireIdle
    /\ wireConfig = NoWireConfig
    /\ AdapterIdle
    /\ LimiterIdle
    /\ OverlapIdle
    /\ \E im \in FrameConversations :
          arrays = [a \in ArrayIds |-> IF a = 0 THEN im ELSE <<>>]
    /\ \E md \in [MetadataKeys -> {Undefined, 0}] :
          objects = [o \in ObjectIds |-> IF o = 0 THEN md ELSE NoEntries]
    /\ frame = IdleFrame

NextFrame ==
    \/ \E hasSystemPrompt \in BOOLEAN : FrameExecute(hasSystemPrompt)
    \/ \E hasTools \in BOOLEAN : FrameIteration(hasTools)
    \/ \E key \in MetadataKeys : FrameToolWrites(key)
    \/ \E withError \in BOOLEAN : FrameReturns(withError)

SpecFrame == InitFrame /\ [][NextFrame]_vars

\* ================================================================== claims
\* messages the loop appended to the caller's conversation
Appended == SubSeq(messages, Len(initialMessages) + 1, Len(messages))

RECURSIVE CountBlocks(_, _)
\* number of blocks of type t in the assistant messages of msgs
CountBlocks(msgs, t) ==
    IF msgs = <<>> THEN 0
    ELSE (IF Head(msgs).role = "assistant"
          THEN Len(SelectSeq(Head(msgs).content, LAMBDA b : b.type = t))
          ELSE 0) + CountBlocks(Tail(msgs), t)

\* C1: Agent.execute never rejects; whatever fails inside the loop, and
\* whether or not an "error" listener or onError is present, it resolves
\* with a result holding the transcript and the iteration count reached.
C1_ExecuteNeverRejects ==
    /\ ~aborted => pc # "rejected"
    /\ pc = "done" =>
          /\ result.kind = "result"
          /\ result.messages = messages
          /\ result.iterations = iteration

\* C2: handleRequest always resolves with an envelope carrying the request's
\* id, for every method and params value; a request whose handler fails on
\* missing params is answered with error -32603.
C2_HandleRequestAlwaysResponds ==
    response.kind \in {"none", "pending"} \/
        /\ response.kind \in {"result", "error"}
        /\ response.id = request.id
        /\ (/\ ~request.hasParams
            /\ request.method \in {"prompts/get", "tools/call",
                                   "completion/complete"})
              => (response.kind = "error" /\ response.code = INTERNAL_ERROR)

\* C3: in every transcript execute returns, also when it was started by
\* completion/complete from a client's messages, each tool-result block
\* refers to the id of a tool-use block that appears earlier in the transcript.
C3_NoOrphanToolResult ==
    pc = "done" =>
        \A j \in 1..Len(result.messages) :
          \A b \in 1..Len(result.messages[j].content) :
            LET blk == result.messages[j].content[b] IN
            IsToolResult(blk) =>
              \E j2 \in 1..j :
                \E b2 \in 1..Len(result.messages[j2].content) :
                  /\ (j2 < j \/ b2 < b)
                  /\ IsToolUse(result.messages[j2].content[b2])
                  /\ result.messages[j2].content[b2].id = RefId(blk)

\* C4: the message appended after an assistant message with n tool calls
\* holds exactly n tool-result blocks, the i-th with the id (and the outcome)
\* of the i-th call, whatever order the handlers completed in.
C4_ToolResultsInCallOrder ==
    \A j \in (Len(initialMessages) + 1)..(Len(messages) - 1) :
        LET toolCalls == extractToolCalls(messages[j])
            m == messages[j + 1]
        IN (messages[j].role = "assistant" /\ Len(toolCalls) > 0) =>
              /\ m.role = "user"
              /\ Len(m.content) = Len(toolCalls)
              /\ \A i \in 1..Len(toolCalls) :
                    /\ m.content[i].type = "tool_result"
                    /\ m.content[i].tool_use_id = toolCalls[i].id
                    /\ \E timerFirst \in TimerOutcomes(
                              ToolDefinition(toolCalls[i].name),
                              toolCalls[i].input) :
                          m.content[i].is_error =
                            ~ToolRegistryExecute(
                                ToolDefinition(toolCalls[i].name),
                                toolCalls[i].input, timerFirst).success

\* two calls of one message completed second-first, and their results were
\* appended
C4_Witness ==
    /\ Len(calls) = 2
    /\ calls[1].order = 2
    /\ calls[2].order = 1
    /\ pc # "tools"
    /\ Len(messages) > 0
    /\ messages[Len(messages)].role = "user"
    /\ Len(messages[Len(messages)].content) = 2
    /\ messages[Len(messages)].content[1].type = "tool_result"

C6_StopsAtFirstPlainAnswer ==
    \A j \in (Len(initialMessages) + 1)..Len(messages) :
        (messages[j].role = "assistant"
            /\ Len(extractToolCalls(messages[j])) = 0) =>
              /\ j = Len(messages)
              /\ pc = "done"
              /\ result.messages = messages
              /\ providerCalls =
                    Len(SelectSeq(Appended, LAMBDA m : m.role = "assistant"))
              /\ j = Len(initialMessages) + 1 =>
                    /\ providerCalls = 1
                    /\ result.iterations = 1
                    /\ toolExecs = 0

\* a direct execute got a plain answer on the first call
C6_Witness ==
    /\ mode = "execute"
    /\ pc = "done"
    /\ providerCalls = 1
    /\ Len(messages) = Len(initialMessages) + 1
    /\ messages[Len(messages)].role = "assistant"
    /\ Len(extractToolCalls(messages[Len(messages)])) = 0
    /\ MaxIterations > 1

\* C7: behind LlmProviderAdapter and the Anthropic provider, every tool-use
\* block (type "toolUse") of an assistant message is executed: the number of
\* ToolRegistry.execute calls equals the number of such blocks received.
C7_AdapterToolUseExecuted ==
    config.kind = "adapter" => toolExecs = CountBlocks(Appended, "toolUse")

\* index of the event with which the execution finished
FirstTerminal(em) ==
    CHOOSE t \in 1..Len(em) :
        /\ em[t].type \in {"complete", "error"}
        /\ \A u \in 1..(t - 1) : em[u].type \notin {"complete", "error"}

IsProgressEvent(e) == e.type \in {"message", "toolCall", "toolResult"}

\* C8: when the stream has ended, it has yielded every message, tool-call
\* and tool-result event the execution emitted before it finished, once each
\* and in emission order, followed by the terminal event.
C8_StreamYieldsEveryEvent ==
    streamPc = "done" =>
        /\ SelectSeq(yielded, IsProgressEvent) =
              SelectSeq(SubSeq(emitted, 1, FirstTerminal(emitted)),
                        IsProgressEvent)
        /\ yielded[Len(yielded)].type \in {"complete", "error"}

\* C9: in the emitted events, iterations do not interleave; within an
\* iteration the message event comes before every tool-call event, and each
\* tool-result event comes after the tool-call event of the same call.
C9_EventOrder ==
    /\ \A p \in 1..Len(emitted) : \A q \in (p + 1)..Len(emitted) :
          /\ emitted[p].iter <= emitted[q].iter
          /\ emitted[p].iter = emitted[q].iter =>
                /\ ~(emitted[q].type = "message"
                        /\ emitted[p].type \in {"toolCall", "toolResult"})
                /\ ~(emitted[p].type = "toolResult"
                        /\ emitted[q].type = "toolCall"
                        /\ emitted[p].idx = emitted[q].idx)
    /\ \A q \in 1..Len(emitted) :
          emitted[q].type = "toolResult" =>
             \E p \in 1..(q - 1) :
                /\ emitted[p].type = "toolCall"
                /\ emitted[p].iter = emitted[q].iter
                /\ emitted[p].idx = emitted[q].idx

\* two iterations ran, and in one of them the second call's result was
\* emitted before the first call's
C9_Witness ==
    /\ \E q \in 1..Len(emitted) :
          emitted[q].type = "toolResult" /\ emitted[q].iter = 2
    /\ \E p \in 1..Len(emitted) : \E q \in (p + 1)..Len(emitted) :
          /\ emitted[p].type = "toolResult"
          /\ emitted[q].type = "toolResult"
          /\ emitted[p].iter = emitted[q].iter
          /\ emitted[p].idx = 2
          /\ emitted[q].idx = 1

\* the step reaches the top of the while loop with the signal aborted and
\* budget left: at the call of execute, or when Promise.all resolved and the
\* tool-result message was appended
AbortSeenAtLoopTop ==
    /\ iteration < MaxIterations
    /\ \/ mode = "none" /\ mode' \in {"execute", "stream"} /\ aborted'
       \/ /\ pc = "tools"
          /\ aborted
          /\ Len(messages') = Len(messages) + 1

\* C10: when the signal is aborted as iteration k is about to begin, no
\* provider call and no tool start follows, and execute resolves with an
\* 'Execution aborted' error, iterations = k - 1 and the transcript so far.
C10_AbortStopsLoop ==
    [][AbortSeenAtLoopTop =>
          /\ pc' = "done"
          /\ result'.kind = "result"
          /\ result'.error = "Execution aborted"
          /\ result'.iterations = iteration
          /\ result'.messages = messages'
          /\ providerCalls' = providerCalls
          /\ toolExecs' = toolExecs]_vars

\* the four ways a tool execution fails: unknown name, input the schema
\* rejects, a handler that throws or rejects, a timer that fires first
FailedExecutions ==
    {ToolRegistryExecute(None, i, tf) : i \in Inputs, tf \in BOOLEAN}
    \cup {ToolRegistryExecute(ToolDefinition(n), "invalid", tf) :
             n \in RegisteredTools, tf \in BOOLEAN}
    \cup {ToolRegistryExecute(ToolDefinition("bad"), "valid", tf) :
             tf \in BOOLEAN}
    \cup {ToolRegistryExecute(ToolDefinition("slow"), "valid", TRUE)}

\* the tool call of block b surely fails in ToolRegistry.execute
SurelyFails(b) ==
    \/ b.name \notin RegisteredTools
    \/ b.input # "valid"
    \/ b.name = "bad"

\* every failed execution is a {success: false, error} result, and in the
\* transcript the result block of a failed call has is_error = true
C11_Results ==
    /\ \A r \in FailedExecutions :
          r.kind = "result" /\ ~r.success /\ r.error # "none"
    /\ \A j \in (Len(initialMessages) + 1)..(Len(messages) - 1) :
          LET toolCalls == extractToolCalls(messages[j])
          IN (messages[j].role = "assistant" /\ Len(toolCalls) > 0) =>
                \A i \in 1..Len(toolCalls) :
                    SurelyFails(toolCalls[i]) =>
                        /\ messages[j + 1].content[i].type = "tool_result"
                        /\ messages[j + 1].content[i].is_error

\* the step in which Promise.all resolves with ToolResults only, one of them
\* failed, and the signal is not aborted
C11_ToolsSettled ==
    /\ pc = "tools"
    /\ pc' # "tools"
    /\ ~aborted
    /\ \A i \in 1..Len(calls') :
          calls'[i].state = "resolved" /\ calls'[i].result.kind = "result"
    /\ \E i \in 1..Len(calls') : ~calls'[i].result.success

\* C11: ToolRegistry.execute never throws: an unknown tool, invalid input, a
\* throwing handler and a timeout each give {success: false, error}; in the
\* loop such a result is appended as a tool-result block with is_error =
\* true and the loop goes on to the next provider call (or ends without
\* error when the budget is used up) instead of ending with an error.
C11_ToolFailureFeedsBack ==
    []C11_Results /\
    [][C11_ToolsSettled =>
          /\ Len(messages') = Len(messages) + 1
          /\ \A i \in 1..Len(calls') :
                messages'[Len(messages')].content[i].is_error =
                    ~calls'[i].result.success
          /\ \/ pc' = "generating" /\ providerCalls' = providerCalls + 1
             \/ /\ iteration = MaxIterations
                /\ pc' = "done"
                /\ result'.error = "none"]_vars

\* a call of the tool with a timeout failed, its result was appended with
\* is_error = true, and the provider was called again and answered
C11_Witness ==
    /\ Len(Appended) >= 3
    /\ Len(extractToolCalls(Appended[1])) = 1
    /\ extractToolCalls(Appended[1])[1].name = "slow"
    /\ Appended[2].content[1].is_error
    /\ Appended[3].role = "assistant"
    /\ providerCalls = 2

\* C12: a tool's handler is invoked only with input that passed the tool's
\* inputSchema validation, in the loop's tool execution and in tools/call.
C12_HandlerInputValidated ==
    \A h \in handlerCalls : h.input = "valid"

\* C19: the first initialize request with well-formed params is answered
\* with a result, every later one with error -32600, and at most one
\* initialize ever succeeds.
C19_InitializeOnce ==
    /\ initSuccesses <= 1
    /\ (/\ request # None
        /\ request.method = "initialize"
        /\ request.hasParams
        /\ response.kind # "pending")
          => \/ response.kind = "result" /\ initSuccesses = 1
             \/ /\ response.kind = "error"
                /\ response.code = INVALID_REQUEST
                /\ initSuccesses = 1

\* protocol content of one block of an agent message
TranslateBlock(b) ==
    IF IsToolUse(b)
    THEN [type |-> "tool_call", toolCallId |-> b.id, toolName |-> b.name,
          arguments |-> b.input]
    ELSE [type |-> "text", text |-> b.text]

\* C20: completion/complete answers with the last assistant message of the
\* execution's transcript translated into protocol content: text blocks to
\* text, tool-use blocks to tool_call with the same id, name and arguments.
C20_CompletionIsLastAssistant ==
    (/\ mode = "acp"
     /\ response.kind = "result") =>
        LET lastMessage == LastAssistant(result.messages)
        IN /\ lastMessage # None
           /\ response.body[1].items =
                 [i \in 1..Len(lastMessage.content) |->
                     TranslateBlock(lastMessage.content[i])]

\* the execute call has a handler or a timer still to settle
CallInProgress == exec.handler = "running" \/ exec.timer = "armed"

\* C13: for a tool with a timeout, when the timer fires before the handler
\* has completed, execute returns {success: false, error: timed out} at that
\* moment without waiting for the handler, and the handler's later
\* completion neither changes the result nor gives a second one; when the
\* handler completes first, its own result is returned.
C13_TimeoutRace ==
    [](/\ exec.timer = "fired" => exec.pc = "settled"
       /\ (exec.pc = "pending" /\ exec.tool.timeout = 50) =>
              exec.timer = "armed"
       /\ (exec.pc = "settled" /\ exec.first = "timer") =>
              /\ exec.result.kind = "result"
              /\ ~exec.result.success
              /\ exec.result.error = "timed out"
       /\ (exec.pc = "settled" /\ exec.first = "handler") =>
              exec.result = IF ToolHandler(exec.tool.name).kind = "throw"
                            THEN Failure(ToolHandler(exec.tool.name).error)
                            ELSE ToolHandler(exec.tool.name))
    /\ [][(exec.pc = "settled" /\ CallInProgress) =>
              /\ exec'.pc = "settled"
              /\ exec'.result = exec.result
              /\ exec'.first = exec.first]_vars

\* the timer fired first, the call returned the timeout failure, and the
\* handler resolved afterwards
C13_Witness ==
    /\ exec.pc = "settled"
    /\ exec.first = "timer"
    /\ exec.timer = "fired"
    /\ exec.handler = "resolved"
    /\ exec.result.error = "timed out"

\* C14: register with a name that is present fails and leaves the mapping
\* unchanged; each name maps to at most one tool; a name that stays
\* registered keeps its tool, so it is registered again only after an
\* unregister.
C14_RegisterOnce ==
    [](\A e1 \in tools : \A e2 \in tools : e1.name = e2.name => e1 = e2)
    /\ [][/\ \A n \in {"ok", "bad"} :
              (Has(tools, n) /\ Has(tools', n)) => Get(tools', n) = Get(tools, n)
          /\ (regOp' # regOp /\ regOp'.op = "register") =>
                \A n \in regOp'.names :
                    IF Has(tools, n)
                    THEN regOp'.threw /\ tools' = tools
                    ELSE ~regOp'.threw /\ Has(tools', n)
          /\ (regOp' # regOp /\ regOp'.op = "registerMany") =>
                (regOp'.threw <=>
                    (\/ \E n \in regOp'.names : Has(tools, n)
                     \/ Cardinality(regOp'.names) = 1))]_vars

\* a second register under a registered name threw, and the tool registered
\* first is still there
C14_Witness ==
    /\ regOp.op = "register"
    /\ regOp.threw
    /\ \A n \in regOp.names : Has(tools, n)

\* PartialEvent type of a provider block kind
KindOf(kind) == IF kind = "tool_use" THEN "toolUse" ELSE kind

\* the block kind a delta belongs to
DeltaBlock(kind) ==
    CASE kind = "text_delta" -> "text"
      [] kind = "input_json_delta" -> "tool_use"
      [] OTHER -> "thinking"

RECURSIVE Scan(_)
\* the Idle / BlockOpen(kind) state machine run over a chunk sequence: the
\* open block, the fragments it has received, whether the sequence is valid
\* so far (each block a start, matching deltas, a stop, one block open at a
\* time), whether every closed tool-use block's fragments parse, and the
\* <<type, isStart, isEnd>> of the event each block chunk stands for
Scan(cs) ==
    IF cs = <<>>
    THEN [open |-> "none", buf |-> <<>>, valid |-> TRUE, parses |-> TRUE,
          flags |-> <<>>]
    ELSE LET p == Scan(SubSeq(cs, 1, Len(cs) - 1))
             c == cs[Len(cs)]
         IN CASE c.type = "content_block_start" ->
                    [open |-> c.kind, buf |-> <<>>,
                     valid |-> p.valid /\ p.open = "none",
                     parses |-> p.parses,
                     flags |-> Append(p.flags, <<KindOf(c.kind), TRUE, FALSE>>)]
              [] c.type = "content_block_delta" ->
                    [open |-> p.open, buf |-> p.buf \o c.text,
                     valid |-> p.valid /\ DeltaBlock(c.kind) = p.open,
                     parses |-> p.parses,
                     flags |-> Append(p.flags,
                                 <<KindOf(DeltaBlock(c.kind)), FALSE, FALSE>>)]
              [] c.type = "content_block_stop" ->
                    [open |-> "none", buf |-> <<>>,
                     valid |-> p.valid /\ p.open # "none",
                     parses |-> p.parses /\ (p.open = "tool_use" =>
                                                JsonParse(p.buf).ok),
                     flags |-> Append(p.flags, <<KindOf(p.open), FALSE, TRUE>>)]
              [] OTHER -> p

\* <<type, isStart, isEnd>> of the yielded events
Flags(ps) == [i \in 1..Len(ps) |-> <<ps[i].type, ps[i].isStart, ps[i].isEnd>>]

CountEvents(ps, isStart, isEnd) ==
    Cardinality({i \in 1..Len(ps) :
                    ps[i].isStart = isStart /\ ps[i].isEnd = isEnd})

\* C15 (as stated): for every valid chunk sequence the events yielded are,
\* block by block, one isStart event, one event per delta, one isEnd event,
\* without interleaving: the stream has not failed, and the events are the
\* chunks' events in order.
C15_ValidSequenceNormalized ==
    Scan(chunks).valid =>
        /\ nzPc # "failed"
        /\ Flags(partials) = Scan(chunks).flags

\* C15 (amended): the same for every valid chunk sequence in which the
\* fragments of every tool-use block concatenate to non-empty, parseable JSON.
C15_ParseableSequenceNormalized ==
    (Scan(chunks).valid /\ Scan(chunks).parses) =>
        /\ nzPc # "failed"
        /\ Flags(partials) = Scan(chunks).flags

\* a text block and a tool-use block with parseable input were both
\* normalized from start to end
C15_Witness ==
    /\ nzPc = "running"
    /\ Scan(chunks).valid
    /\ CountEvents(partials, TRUE, FALSE) = 2
    /\ CountEvents(partials, FALSE, TRUE) = 2
    /\ \E i \in 1..Len(partials) :
          partials[i].type = "toolUse" /\ partials[i].isEnd
    /\ \E i \in 1..Len(partials) :
          partials[i].type = "text" /\ partials[i].isEnd

\* chunk c breaks the protocol after the chunks cs: a start while a block is
\* open, or a delta of another kind than the open block's (or with no block
\* open)
ProtocolViolation(cs, c) ==
    \/ c.type = "content_block_start" /\ Scan(cs).open # "none"
    \/ c.type = "content_block_delta" /\ DeltaBlock(c.kind) # Scan(cs).open

\* C16: a block start while a block is open and a delta that does not match
\* the open block make the stream fail; the failing chunk yields nothing,
\* and after the failure nothing is yielded and nothing is returned.
C16_ProtocolViolationFails ==
    [][(chunks' # chunks /\ ProtocolViolation(chunks, chunks'[Len(chunks')]))
          => (nzPc' = "failed" /\ partials' = partials)]_vars
    /\ [][nzPc = "failed" => (nzPc' = "failed" /\ partials' = partials)]_vars

\* a tool-use start arrived while a text block was open, and the stream
\* failed
C16_Witness ==
    /\ nzPc = "failed"
    /\ Len(chunks) >= 2
    /\ chunks[Len(chunks)].type = "content_block_start"
    /\ chunks[Len(chunks)].kind = "tool_use"
    /\ Scan(SubSeq(chunks, 1, Len(chunks) - 1)).open = "text"
    /\ partials # <<>>

\* C17: at the stop of a tool-use block, an empty or unparseable buffer
\* makes the stream fail without an isEnd event; otherwise the isEnd event
\* carries the parsed value of the concatenation of the block's fragments.
C17_ToolInputParsedAtStop ==
    [][(/\ chunks' # chunks
        /\ chunks'[Len(chunks')].type = "content_block_stop"
        /\ Scan(chunks).open = "tool_use")
          => IF JsonParse(Scan(chunks).buf).ok
             THEN /\ nzPc' = "running"
                  /\ partials' = Append(partials,
                        [type |-> "toolUse", isStart |-> FALSE,
                         isEnd |-> TRUE, text |-> <<>>,
                         input |-> JsonParse(Scan(chunks).buf).value])
             ELSE /\ nzPc' = "failed"
                  /\ partials' = partials]_vars

\* a tool-use block received "{" only, its stop arrived, and the stream
\* failed without an isEnd event
C17_Witness ==
    /\ nzPc = "failed"
    /\ chunks[Len(chunks)].type = "content_block_stop"
    /\ Scan(SubSeq(chunks, 1, Len(chunks) - 1)).open = "tool_use"
    /\ Scan(SubSeq(chunks, 1, Len(chunks) - 1)).buf = <<"{">>
    /\ CountEvents(partials, FALSE, TRUE) = 0

\* C18: the final Response is returned only from Idle: when the stream has
\* returned, no block is open and every isStart event has its isEnd event.
C18_ReturnsOnlyFromIdle ==
    nzPc = "returned" =>
        /\ partialBlockType = "undefined"
        /\ CountEvents(partials, TRUE, FALSE) = CountEvents(partials, FALSE, TRUE)

\* ---------------------------------------------------------------- AcpClient
\* ids of the requests whose promise is not settled
UnsettledIds == {sent[i].id : i \in {j \in 1..Len(sent) : sent[j].state = "pending"}}

\* C21: every request sent by AcpClient settles exactly once (by the response
\* with its id, its timeout, a send failure or close); at every moment the
\* pending map holds exactly the ids of the requests not yet settled, and no
\* two requests have the same id
C21_SettlesOnce ==
    /\ [](/\ {e.id : e \in pendingRequests} = UnsettledIds
          /\ \A e \in pendingRequests : sent[e.req].id = e.id
          /\ \A i \in 1..Len(sent), j \in 1..Len(sent) :
                sent[i].id = sent[j].id => i = j)
    /\ [][\A i \in 1..Len(sent) :
            sent[i].state # "pending" =>
                /\ sent'[i].state = sent[i].state
                /\ sent'[i].reason = sent[i].reason]_vars
    /\ \A i \in 1..MaxSent :
          (Len(sent) >= i) ~> (Len(sent) >= i /\ sent[i].state # "pending")

\* two requests are in flight, and each way of settling has been taken
C21_Witness ==
    /\ Len(sent) >= 2
    /\ sent[1].state = "resolved"
    /\ sent[2].state = "rejected" /\ sent[2].reason = "timed out"
    /\ pendingRequests = {}

\* what a caller and the timers see of the requests: everything but what the
\* transport did with them
Promises(s) ==
    [i \in 1..Len(s) |->
        [id |-> s[i].id, state |-> s[i].state, reason |-> s[i].reason,
         code |-> s[i].code, by |-> s[i].by, timer |-> s[i].timer]]

\* C22: a response whose id has no entry in the pending map is dropped (a
\* plain return): it settles no request and leaves the pending map, the
\* timers and the client's fields unchanged; and a request is only ever
\* settled by a response carrying the id the request was sent with
C22_UnknownResponseDropped ==
    /\ [][lastCall' = "dropped" =>
            /\ Promises(sent') = Promises(sent)
            /\ pendingRequests' = pendingRequests
            /\ nextId' = nextId
            /\ clientInitialized' = clientInitialized]_vars
    /\ [](\A i \in 1..Len(sent) :
            (sent[i].state = "resolved" \/ sent[i].reason = "ACP Error")
                => sent[i].by = sent[i].id)

\* the server's answer to a request that had timed out was dropped, while
\* another request is pending and one was settled by its response
C22_Witness ==
    /\ lastCall = "dropped"
    /\ \E i \in 1..Len(sent), j \in 1..Len(sent) :
          /\ sent[i].reason = "timed out"
          /\ sent[i].wire = "answered"
          /\ sent[j].state = "pending"

\* C23: close rejects every request that is still pending with "Client
\* closed", cancels their timers and leaves the pending map empty; nothing
\* that arrives later changes the outcome of those requests or fires their
\* timers
C23_CloseRejectsPending ==
    /\ [][lastCall' = "close" =>
            /\ pendingRequests' = {}
            /\ \A e \in pendingRequests :
                  /\ sent'[e.req].state = "rejected"
                  /\ sent'[e.req].reason = "Client closed"
                  /\ sent'[e.req].timer = "cleared"]_vars
    /\ [][\A i \in 1..Len(sent) :
            sent[i].reason = "Client closed" =>
                /\ Promises(sent')[i] = Promises(sent)[i]
                /\ sent[i].timer = "cleared"]_vars

\* a request was rejected by close, and the server's answer to it arrived
\* afterwards
C23_Witness ==
    \E i \in 1..Len(sent) :
        /\ sent[i].reason = "Client closed"
        /\ sent[i].wire = "answered"
        /\ lastCall = "dropped"

\* C29: after the server has answered the application's raw initialize
\* request with a result, the initialize request of a client of the same
\* adapter is not refused by the server (so that client.initialize completes
\* and listTools, callTool and complete can follow, as in acpExample)
C29_ClientInitializeAfterRawInitialize ==
    (rawResponse # None /\ rawResponse.kind = "result") =>
        \A i \in 1..Len(sent) :
            sent[i].method = "initialize" =>
                ~(sent[i].state = "rejected" /\ sent[i].code = INVALID_REQUEST)

\* ------------------------------------------------------ execution metadata
\* C24: a write made to the metadata bag during one execution is never
\* observable through ToolContext.metadata or result.metadata of another
\* execution: what an execution shows is what its own tools wrote
C24_MetadataIsolated ==
    \A e \in Executions : Visible(e) \subseteq executions[e].stored

\* C25: once execute has returned, the metadata of its result never changes
\* (messages is a copy no one else holds and iterations a number)
C25_ResultImmutable ==
    [][\A e \in Executions :
          (executions[e].state = "returned"
              /\ executions'[e].state = "returned")
            => Visible(e)' = Visible(e)]_vars

\* ------------------------------------------------- texts through the server
\* the text block a backend answers with
AnswerOf(text) ==
    [kind |-> "content", content |-> <<[type |-> "text", text |-> text]>>]

\* C28: a completion/complete request whose only message is a text message
\* with text t, answered by the provider with a single text block containing
\* t, yields a success result whose completion content is a single text
\* content with exactly t
C28_TextRoundTrip ==
    \A t \in Texts :
        (/\ wirePc = "done"
         /\ Len(wireRequest) = 1
         /\ wireRequest[1].content.text = t
         /\ backendResponse = AnswerOf(t))
        => wireResponse =
              ResultResponse(1, <<[shape |-> "single",
                                   items |-> <<[type |-> "text",
                                                text |-> t]>>]>>)

\* the round trip was made with a non-empty text by an agent that has a
\* system prompt
C28_Witness ==
    /\ wirePc = "done"
    /\ wireConfig.systemPrompt = "sys"
    /\ Len(wireRequest) = 1
    /\ wireRequest[1].content.text = "a"
    /\ backendResponse = AnswerOf("a")
    /\ wireResponse.kind = "result"

\* C30: when a system prompt is configured on the agent, every request that
\* reaches the Anthropic backend carries it, as the request's system field
\* or as a system message of the conversation
C30_SystemPromptDelivered ==
    (backendRequest # None /\ wireConfig.systemPrompt \notin {NoText, ""})
        => \/ backendRequest.system = wireConfig.systemPrompt
           \/ \E i \in 1..Len(backendRequest.messages) :
                 /\ backendRequest.messages[i].role = "system"
                 /\ backendRequest.messages[i].content
                       = wireConfig.systemPrompt

\* ------------------------------------------------------ iteration budget
\* execute returned a result without an error
ErrorFree == result # None /\ result.kind = "result" /\ result.error = "none"

\* the loop was left by the break: the provider's last answer asked for no
\* tool, so the transcript ends with that answer
ReachedCompleted ==
    /\ providerCalls > 0
    /\ result.messages[Len(result.messages)].role = "assistant"

\* C26: for an error-free result, result.iterations = maxIterations holds if
\* and only if the loop ended by exhausting the budget without reaching
\* Completed
C26_IterationsTellExhaustion ==
    ErrorFree => ((result.iterations = MaxIterations) <=> ~ReachedCompleted)

\* C26 amended: for an error-free result, if the loop ended by exhausting the
\* budget without reaching Completed then result.iterations = maxIterations
C26_ExhaustionHasMaxIterations ==
    (ErrorFree /\ ~ReachedCompleted) => result.iterations = MaxIterations

\* a budget of at least one iteration was exhausted by tool calls
C26_Witness ==
    /\ ErrorFree
    /\ ~ReachedCompleted
    /\ result.iterations >= 1
    /\ toolExecs > 0

GeneratedAssistant ==
    \E i \in 1..Len(Appended) : Appended[i].role = "assistant"

\* C31: a success result of completion/complete carries an assistant message
\* the provider generated during that request, never one copied from the
\* request's own messages; an execution that resolved without generating an
\* assistant message is answered with an error envelope.
C31_CompletionIsGenerated ==
    (/\ mode = "acp"
     /\ response.kind # "pending"
     /\ pc = "done") =>
        /\ response.kind = "result" => GeneratedAssistant
        /\ ~GeneratedAssistant => response.kind = "error"

\* C32: an initialize request that is answered with an error leaves
\* AcpServer.initialized as it was, so that a server that was not
\* initialized still accepts a following well-formed initialize request.
C32_FailedInitializeKeepsState ==
    [][(/\ request' # None
        /\ request'.method = "initialize"
        /\ response'.kind = "error") => initialized' = initialized]_vars

\* the initialize requests the client of the adapter has sent
InitializeRequests == SelectSeq(sent, LAMBDA r : r.method = "initialize")

\* an AcpAdapter.complete call failed because of the initialization: the
\* server refused its initialize request, or the client was not initialized
InitializationError(k) ==
    /\ adapterCalls[k].pc = "failed"
    /\ \/ adapterCalls[k].code = INVALID_REQUEST
       \/ adapterCalls[k].reason = "Client not initialized"

\* C33: however two AcpAdapter.complete calls on a fresh adapter overlap,
\* the lazy initialization sends at most one initialize request and neither
\* call fails with an initialization error.
C33_OverlappingCompleteInitializesOnce ==
    /\ Len(InitializeRequests) <= 1
    /\ \A k \in AdapterCallIds : ~InitializationError(k)

\* callers whose acquire has returned and who have not released yet
Holders == {c \in Callers : callers[c].pc = "holding"}

\* C35: under any interleaving of acquire, release and run calls in which
\* every release follows its own acquire, the number of callers that have
\* acquired and not yet released never exceeds maxConcurrent.
C35_AtMostMaxConcurrent ==
    Cardinality(Holders) <= limiterConfig.maxConcurrent

\* C34: when two executions of one Agent overlap, each stream yields only
\* the message, tool-call, tool-result and error events of its own
\* execution, never an event of the other execution.
C34_StreamYieldsOwnEvents ==
    \A r \in RunIds :
        \A i \in 1..Len(runs[r].yielded) : runs[r].yielded[i].run = r

\* C37: whenever a stream generator that has started finishes (it returned
\* after complete, its consumer ended the iteration early, or an exception
\* left it), its four handlers are removed: apart from the handlers of other
\* stream calls, the agent's listeners are what they were before the call.
C37_StreamRemovesItsListeners ==
    \A r \in RunIds :
        runs[r].streamPc = "finished" =>
            \A t \in StreamTypes :
                /\ r \notin listeners[t]
                /\ listeners[t] \ RunIds = runs[r].before[t] \ RunIds

\* one stream was ended early by its consumer while the other stream still
\* listened, and that one ended by an exception later
C37_Witness ==
    /\ runs[1].ended = "early"
    /\ runs[2].ended = "throw"
    /\ Len(runs[1].yielded) > 0

\* C36: execute never mutates what the caller passed in.  The caller's
\* initialMessages array keeps its length and elements and the caller's
\* metadata object keeps its top-level keys and values, for every outcome;
\* the transcript of the result begins with the caller's initialMessages in
\* their original order.
C36_ArgumentsUntouched ==
    frame.pc # "idle" =>
        /\ arrays[0] = frame.before.messages
        /\ objects[0] = frame.before.metadata
        /\ frame.pc = "returned" =>
              /\ Len(frame.result.messages) >= Len(frame.before.messages)
              /\ SubSeq(frame.result.messages, 1,
                        Len(frame.before.messages)) = frame.before.messages

\* an execution with a system prompt that appended messages and wrote both
\* metadata keys has returned to a caller who passed two messages and an
\* object that has an entry
C36_Witness ==
    /\ frame.pc = "returned"
    /\ Len(frame.before.messages) = 2
    /\ Len(frame.result.messages) > 3
    /\ frame.before.metadata["memory"] = 0
    /\ objects[frame.metadata]["memory"] = 1
    /\ objects[frame.metadata]["a"] = 1

====
